---- MODULE Spec2Model ----
(***************************************************************************)
(* MapCache: resource lockers (disk locker, lock_or_wait), the tile        *)
(* pipeline that renders under a lock, resource-name canonicalization and  *)
(* the multitier cache backend.                                            *)
(***************************************************************************)
EXTENDS Integers, Sequences, FiniteSets, TLC

(* ------------------------------ bounds -------------------------------- *)
NWorkers == 2
Timeout == 2
RetryInterval == 1
MaxLen == 2
NTiers == 3
NLockers == 2
NAliases == 2
MaxBody == 3

MaxSec == 2

Workers == 1..NWorkers

(* ------------------------------- state --------------------------------- *)
VARIABLES
  files,      \* lock files present in the lock directory
  cache,      \* per resource: 0 (absent) or the worker whose render is stored
  pc,         \* per worker: position in the pipeline
  res,        \* per worker: resource (metatile) requested
  lock,       \* per worker: *lock, the token set by aquire_lock
  rv,         \* per worker: rv of lock_or_wait
  ret,        \* per worker: value returned by the last lock_or_wait
  waited,     \* per worker: apr_time_now() - start_wait, capped
  sleepLeft,  \* per worker: remaining time of apr_sleep
  retries,    \* per worker: re-renders taken after a false lock_or_wait
  resp,       \* per worker: bytes responded (0 none)
  ctxErr,     \* per worker: error code in the context
  hist        \* history: bookkeeping of calls, read by the properties only

lockVars == <<files, cache, pc, res, lock, rv, ret, waited, sleepLeft, retries,
              resp, ctxErr, hist>>

VARIABLES
  cRes,     \* the resource string handed to the lockers
  cPrefix,  \* lm->key_prefix of the memcache locker
  cDisk,    \* result of lock_filename_for_resource, <<>> before the call
  cKey      \* result of memcache_key_for_resource, <<>> before the call

canonVars == <<cRes, cPrefix, cDisk, cKey>>

VARIABLES
  mtCaches,  \* per tier: 0 (tile absent) or the bytes stored for the tile
  mtWrite,   \* write_cache_idx
  mtOp,      \* the last operation called on the multitier cache
  mtPre,     \* the tiers' contents when that operation was called
  mtTile,    \* encoded data of the tile handed back (0 none)
  mtRet,     \* value returned
  mtErr,     \* error code carried by the context on return
  mtLog,     \* the child operations the call made: <<op, tier, result>>
  mtBlank    \* the tiers that are Riak caches with detect_blank set

mtVars == <<mtCaches, mtWrite, mtOp, mtPre, mtTile, mtRet, mtErr, mtLog, mtBlank>>

VARIABLES
  cfgChildren,  \* the <cache> children of the multitier declaration, in order
  cfgCaches,    \* cache->caches: the children pushed so far, by position
  cfgWriteIdx,  \* cache->write_cache_idx
  cfgErr,       \* error code in the context after parsing
  cfgParsed     \* whether configuration_parse_xml has run

cfgVars == <<cfgChildren, cfgCaches, cfgWriteIdx, cfgErr, cfgParsed>>

VARIABLES
  fbFiles,  \* per child locker: the lock files present in its directory
  fbPc,     \* per worker: idle, own, wait, failed
  fbRes,    \* per worker: the resource it locks
  fbTok,    \* per worker: the fallback_lock {locker, lock} set by acquire
  fbRv,     \* per worker: result of its last locker call
  fbErr,    \* per worker: the error carried by its context
  fbLog     \* per worker: the child calls of its last locker call

fbVars == <<fbFiles, fbPc, fbRes, fbTok, fbRv, fbErr, fbLog>>

VARIABLES
  mcStore,    \* the memcache server: present lock keys, each with its expiration
  mcTimeout,  \* the locker's timeout, in tenths of a second
  mcPrefix,   \* lm->key_prefix
  mcPc,       \* per worker: idle, own, wait, failed
  mcRes,      \* per worker: the resource it locks
  mcTok,      \* per worker: *lock, the mapcache_lock_memcache of its acquire
  mcRv,       \* per worker: result of its last locker call
  mcErr,      \* per worker: error code in its context
  mcCall      \* per worker: the memcache call made by its last locker call

mcVars == <<mcStore, mcTimeout, mcPrefix, mcPc, mcRes, mcTok, mcRv, mcErr, mcCall>>

VARIABLES
  rqHandler,     \* r->handler ("NULL" when unset)
  rqMethod,      \* r->method_number
  rqCfg,         \* the server's module config: present or not, alias endpoints
  rqNote,        \* the mapcache_alias_entry note of r ("NONE" when unset)
  rqRet,         \* <<value returned by the handler>>, <<>> before it ran
  rqCtxCreated,  \* whether apache_request_context_create was called
  rqCtx,         \* position of the alias entry the context was built on, or -1
  rqDispatched   \* whether mapcache_service_dispatch_request was called

rqVars == <<rqHandler, rqMethod, rqCfg, rqNote, rqRet, rqCtxCreated, rqCtx,
            rqDispatched>>

VARIABLES
  amUri,     \* the request URI handed to mapcache_alias_matches
  amAlias,   \* the alias endpoint (alias_fakename)
  amBefore,  \* the byte stored in front of the alias string (aliasp[-1])
  amRet      \* <<value returned>>, <<>> before the call

amVars == <<amUri, amAlias, amBefore, amRet>>

VARIABLES
  fxUri,        \* r->uri
  fxCfg,        \* the server's module config: present or not, its aliases
  fxHandlerIn,  \* r->handler when the fixups hook is entered
  fxHandler,    \* r->handler ("NULL" when unset)
  fxNote,       \* <<the mapcache_alias_entry note of r>>, <<>> when unset
  fxPathInfo,   \* <<r->path_info as set by the hook>>, <<>> when not set
  fxRet         \* <<value returned by the hook>>, <<>> before it ran

fxVars == <<fxUri, fxCfg, fxHandlerIn, fxHandler, fxNote, fxPathInfo, fxRet>>

VARIABLES
  mgCfg,     \* the module config of the base server and of the virtual host
  mgMerged   \* <<the config merged for the virtual host>>, <<>> before

mgVars == <<mgCfg, mgMerged>>

VARIABLES
  ciServers,  \* the module configs of the server list: base server, then
              \* the merged config of the virtual host when there is one
  ciFailAt,   \* which call of pool creation fails (0: none)
  ciBroken,   \* whether the failed creation leaves a pool object behind
  ciCp,       \* alias_entry->cp of every alias entry (0 is NULL)
  ciDone      \* whether mod_mapcache_child_init ran

ciVars == <<ciServers, ciFailAt, ciBroken, ciCp, ciDone>>

VARIABLES
  pxMethod,     \* r->method_number of a request dispatched as a proxy request
  pxIn,         \* r->headers_in: the X-Forwarded-* and Host values (<<>> when
                \* absent) and whether Content-Length announces the body
  pxBody,       \* the length of the request body
  pxMax,        \* rule->max_post_len
  pxChunk,      \* how many bytes the input filters hand over per brigade
  pxEosApart,   \* whether the EOS bucket comes in a brigade of its own
  pxEos,        \* what the uninitialized local eos of read_post_body holds
  pxReadFails,  \* whether ap_get_brigade fails
  pxHeaders,    \* req_proxy->headers when the request is forwarded
  pxPostLen,    \* req_proxy->post_len
  pxErr,        \* the error code of the context, 0 when none
  pxForwarded,  \* whether mapcache_core_proxy_request was called
  pxDone        \* whether the handler ran

pxVars == <<pxMethod, pxIn, pxBody, pxMax, pxChunk, pxEosApart, pxEos,
            pxReadFails, pxHeaders, pxPostLen, pxErr, pxForwarded, pxDone>>

VARIABLES
  rkVariant,  \* which of the two Riak backends of cache_riak2.c is built
  rkDetect,   \* cache->detect_blank
  rkStore,    \* <<the object under the tile's key>>, <<>> when there is none
  rkOp,       \* the last operation ("none" before the first)
  rkIn,       \* its inputs: the payload given to set, the outcome of the
              \* borrow, of the Riak attempts and of the reconnects
  rkOut,      \* what it returned, the error it set, its calls to the pool
              \* and what it left in the tile
  rkLastSet   \* <<the tile of the last set that succeeded, as the set left
              \* it but with the payload it was given>>, <<>> after a delete
              \* or a failed set

rkVars == <<rkVariant, rkDetect, rkStore, rkOp, rkIn, rkOut, rkLastSet>>

VARIABLES
  rlOpOk,   \* the outcomes of successive Riak calls of one operation
  rlRecOk,  \* the outcomes of its successive riack_reconnect calls
  rlLoop    \* <<what its retry loop ended with>>, <<>> before it ran

rlVars == <<rlOpOk, rlRecOk, rlLoop>>

VARIABLES
  wrReq,   \* the request: If-Modified-Since header (<<>> none), request_time
  wrResp,  \* the mapcache_http_response to write
  wrOut    \* <<what write_http_response returned and left in r>>, <<>> before

wrVars == <<wrReq, wrResp, wrOut>>

VARIABLES
  cuHost,      \* the host name of the server
  cuUri,       \* original->uri
  cuAlias,     \* the endpoint of the alias the fixups hook matched
  cuPathInfo,  \* original->path_info as the fixups hook set it
  cuUrl        \* <<the url given to mapcache_core_get_capabilities>>

cuVars == <<cuHost, cuUri, cuAlias, cuPathInfo, cuUrl>>

VARIABLES
  aeUri,    \* r->uri
  aeVhost,  \* the endpoints of the virtual host's own alias entries, in order
  aeBase,   \* the endpoints of the base server's alias entries, in order
  aeFix,    \* <<what the fixups hook left in r>>, <<>> before it ran
  aeCtx     \* <<what the handler's context was built on>>, <<>> before

aeVars == <<aeUri, aeVhost, aeBase, aeFix, aeCtx>>

vars == <<lockVars, canonVars, mtVars, cfgVars, fbVars, mcVars, rqVars,
    amVars, fxVars, mgVars, ciVars, pxVars, rkVars, rlVars, wrVars, cuVars,
    aeVars>>

(* what the actions of one component leave alone *)
besidesLock == <<canonVars, mtVars, cfgVars, fbVars, mcVars, rqVars, amVars,
    fxVars, mgVars, ciVars, pxVars, rkVars, rlVars, wrVars, cuVars, aeVars>>
besidesCanon == <<lockVars, mtVars, cfgVars, fbVars, mcVars, rqVars, amVars,
    fxVars, mgVars, ciVars, pxVars, rkVars, rlVars, wrVars, cuVars, aeVars>>
besidesMT == <<lockVars, canonVars, cfgVars, fbVars, mcVars, rqVars, amVars,
    fxVars, mgVars, ciVars, pxVars, rkVars, rlVars, wrVars, cuVars, aeVars>>
besidesCfg == <<lockVars, canonVars, mtVars, fbVars, mcVars, rqVars, amVars,
    fxVars, mgVars, ciVars, pxVars, rkVars, rlVars, wrVars, cuVars, aeVars>>
besidesFb == <<lockVars, canonVars, mtVars, cfgVars, mcVars, rqVars, amVars,
    fxVars, mgVars, ciVars, pxVars, rkVars, rlVars, wrVars, cuVars, aeVars>>
besidesMc == <<lockVars, canonVars, mtVars, cfgVars, fbVars, rqVars, amVars,
    fxVars, mgVars, ciVars, pxVars, rkVars, rlVars, wrVars, cuVars, aeVars>>
besidesRq == <<lockVars, canonVars, mtVars, cfgVars, fbVars, mcVars, amVars,
    fxVars, mgVars, ciVars, pxVars, rkVars, rlVars, wrVars, cuVars, aeVars>>
besidesAm == <<lockVars, canonVars, mtVars, cfgVars, fbVars, mcVars, rqVars,
    fxVars, mgVars, ciVars, pxVars, rkVars, rlVars, wrVars, cuVars, aeVars>>
besidesFx == <<lockVars, canonVars, mtVars, cfgVars, fbVars, mcVars, rqVars,
    amVars, mgVars, ciVars, pxVars, rkVars, rlVars, wrVars, cuVars, aeVars>>
besidesMg == <<lockVars, canonVars, mtVars, cfgVars, fbVars, mcVars, rqVars,
    amVars, fxVars, ciVars, pxVars, rkVars, rlVars, wrVars, cuVars, aeVars>>
besidesCi == <<lockVars, canonVars, mtVars, cfgVars, fbVars, mcVars, rqVars,
    amVars, fxVars, mgVars, pxVars, rkVars, rlVars, wrVars, cuVars, aeVars>>
besidesPx == <<lockVars, canonVars, mtVars, cfgVars, fbVars, mcVars, rqVars,
    amVars, fxVars, mgVars, ciVars, rkVars, rlVars, wrVars, cuVars, aeVars>>
besidesRk == <<lockVars, canonVars, mtVars, cfgVars, fbVars, mcVars, rqVars,
    amVars, fxVars, mgVars, ciVars, pxVars, rlVars, wrVars, cuVars, aeVars>>
besidesRl == <<lockVars, canonVars, mtVars, cfgVars, fbVars, mcVars, rqVars,
    amVars, fxVars, mgVars, ciVars, pxVars, rkVars, wrVars, cuVars, aeVars>>
besidesWr == <<lockVars, canonVars, mtVars, cfgVars, fbVars, mcVars, rqVars,
    amVars, fxVars, mgVars, ciVars, pxVars, rkVars, rlVars, cuVars, aeVars>>
besidesCu == <<lockVars, canonVars, mtVars, cfgVars, fbVars, mcVars, rqVars,
    amVars, fxVars, mgVars, ciVars, pxVars, rkVars, rlVars, wrVars, aeVars>>
besidesAe == <<lockVars, canonVars, mtVars, cfgVars, fbVars, mcVars, rqVars,
    amVars, fxVars, mgVars, ciVars, pxVars, rkVars, rlVars, wrVars, cuVars>>

(* ------------------------- strings as sequences ------------------------ *)
MAPCACHE_LOCKFILE_PREFIX == <<"_", "g", "c", "_", "l", "o", "c", "k">>
LckSuffix == <<".", "l", "c", "k">>
LockDir == <<"/", "t", "m", "p">>

DiskUnsafe == {" ", "/", "~", "."}

SafeDiskCharNoDot(c) == IF c \in {" ", "/", "~"} THEN "#" ELSE c

SafeDiskChar(c) == IF c \in DiskUnsafe THEN "#" ELSE c

SafeDisk(resource) == [i \in 1..Len(resource) |-> SafeDiskChar(resource[i])]

lock_filename_for_resource(dir, resource) ==
  dir \o <<"/">> \o MAPCACHE_LOCKFILE_PREFIX \o SafeDisk(resource) \o LckSuffix

(* control characters are named: CR \r, LF \n, TAB \t, FF \f, ESC \e,      *)
(* BEL \a, BS \b                                                           *)
MemcacheUnsafe ==
  {" ", "/", "~", ".", "CR", "LF", "TAB", "FF", "ESC", "BEL", "BS"}

SafeMemcacheChar(c) == IF c \in MemcacheUnsafe THEN "#" ELSE c

SafeMemcache(resource) ==
  [i \in 1..Len(resource) |-> SafeMemcacheChar(resource[i])]

(* key_prefix is <<>> when lm->key_prefix is NULL: "" is used then *)
memcache_key_for_resource(key_prefix, resource) ==
  key_prefix \o MAPCACHE_LOCKFILE_PREFIX \o SafeMemcache(resource) \o LckSuffix

(* ------------------------------ disk locker ---------------------------- *)
(* apr_file_open(APR_WRITE|APR_CREATE|APR_EXCL): fs is the set of existing *)
(* lock files, ioerr an open failure other than EEXIST.                    *)
AquireNoExcl(fs, lockname, ioerr) ==
  IF ioerr
    THEN [rv |-> "NOENT", fs |-> fs, err |-> 500]
    ELSE [rv |-> "AQUIRED", fs |-> fs \cup {lockname}, err |-> 0]

mapcache_locker_disk_aquire_lock(fs, lockname, ioerr) ==
  IF ioerr
    THEN [rv |-> "NOENT", fs |-> fs, err |-> 500]
    ELSE IF lockname \in fs
      THEN [rv |-> "LOCKED", fs |-> fs, err |-> 0]
      ELSE [rv |-> "AQUIRED", fs |-> fs \cup {lockname}, err |-> 0]

PingAlwaysNoent(fs, lockname) == "NOENT"

mapcache_locker_disk_ping_lock(fs, lockname) ==
  IF lockname \notin fs THEN "NOENT" ELSE "LOCKED"

mapcache_locker_disk_release_lock(fs, lockname) == fs \ {lockname}

mapcache_unlock_resource(fs, token) ==
  mapcache_locker_disk_release_lock(fs, token)

(* -------------------- mapcache_lock_or_wait_for_resource --------------- *)
(* lines 75-79: the outcome of the acquire call *)
AfterAquireOwnsLocked(result, err) ==
  IF err # 0 THEN "FAILURE"
  ELSE IF result \in {"AQUIRED", "LOCKED"} THEN "TRUE"
  ELSE "WAIT"

AfterAquireNoErrCheck(result, err) ==
  IF result = "AQUIRED" THEN "TRUE" ELSE "WAIT"

AfterAquire(result, err) ==
  IF err # 0 THEN "FAILURE"
  ELSE IF result = "AQUIRED" THEN "TRUE"
  ELSE "WAIT"

(* line 86 *)
TimedOutNever(t) == FALSE

TimedOut(t) == t > Timeout

WaitCap == Timeout + 1

(* ------------------------------ the pipeline --------------------------- *)
Resources == {<<"l", "/", "1">>, <<"l", ".", "2">>}

LockFiles == {lock_filename_for_resource(LockDir, r) : r \in Resources}

HistInit ==
  [ holders  |-> [f \in LockFiles |-> {}],
    renders  |-> [r \in Resources |-> 0],
    calls    |-> [w \in Workers |-> 0],
    everRel  |-> [f \in LockFiles |-> FALSE],
    acqLate  |-> [w \in Workers |-> FALSE],
    acq      |-> [w \in Workers |-> "NONE"],
    acqSaw   |-> [w \in Workers |-> FALSE],
    aquired  |-> [w \in Workers |-> 0],
    released |-> [w \in Workers |-> 0],
    path     |-> [w \in Workers |-> "none"],
    pathRel  |-> [w \in Workers |-> 0],
    atCheck  |-> [w \in Workers |-> 0],
    pings    |-> [w \in Workers |-> 0],
    sleeps   |-> [w \in Workers |-> 0],
    logs     |-> [w \in Workers |-> 0],
    timeouts |-> [w \in Workers |-> 0] ]

LockInit ==
  /\ files = {}
  /\ cache = [r \in Resources |-> 0]
  /\ pc = [w \in Workers |-> "get"]
  /\ res \in [Workers -> Resources]
  /\ lock = [w \in Workers |-> <<>>]
  /\ rv = [w \in Workers |-> "NONE"]
  /\ ret = [w \in Workers |-> "NONE"]
  /\ waited = [w \in Workers |-> 0]
  /\ sleepLeft = [w \in Workers |-> 0]
  /\ retries = [w \in Workers |-> 0]
  /\ resp = [w \in Workers |-> 0]
  /\ ctxErr = [w \in Workers |-> 0]
  /\ hist = HistInit

LockName(w) == lock_filename_for_resource(LockDir, res[w])

(* cache.get(t) of the pipeline: Success responds, Miss goes on to the lock *)
TileGet(w) ==
  /\ pc[w] = "get"
  /\ IF cache[res[w]] # 0
       THEN /\ resp' = [resp EXCEPT ![w] = cache[res[w]]]
            /\ pc' = [pc EXCEPT ![w] = "done"]
       ELSE /\ pc' = [pc EXCEPT ![w] = "lock"]
            /\ UNCHANGED resp
  /\ UNCHANGED <<files, cache, res, lock, rv, ret, waited, sleepLeft, retries,
                 ctxErr, hist>>
  /\ UNCHANGED besidesLock

(* lock_or_wait, lines 74-82: the acquire call and what follows from it *)
LockOrWaitAquire(w) ==
  /\ pc[w] = "lock"
  /\ \E ioerr \in BOOLEAN :
       LET a == mapcache_locker_disk_aquire_lock(files, LockName(w), ioerr)
           out == AfterAquire(a.rv, a.err)
           h1 == [hist EXCEPT !.calls[w] = @ + 1,
                              !.acqLate[w] = hist.everRel[LockName(w)],
                              !.acq[w] = a.rv,
                              !.acqSaw[w] = LockName(w) \in files,
                              !.aquired[w] = IF a.rv = "AQUIRED" THEN @ + 1 ELSE @,
                              !.holders[LockName(w)] =
                                 IF a.rv = "AQUIRED" THEN @ \cup {w} ELSE @,
                              !.pathRel[w] = 0,
                              !.atCheck[w] = 0,
                              !.pings[w] = 0,
                              !.sleeps[w] = 0,
                              !.path[w] = CASE out = "FAILURE" -> "error"
                                            [] out = "TRUE" -> "acquired"
                                            [] OTHER -> "waiting"]
       IN /\ files' = a.fs
          /\ lock' = [lock EXCEPT ![w] = LockName(w)]
          /\ ctxErr' = [ctxErr EXCEPT ![w] = a.err]
          /\ hist' = h1
          /\ CASE out = "FAILURE" ->
                    /\ ret' = [ret EXCEPT ![w] = "FAILURE"]
                    /\ pc' = [pc EXCEPT ![w] = "error"]
                    /\ UNCHANGED <<rv, waited>>
               [] out = "TRUE" ->
                    /\ ret' = [ret EXCEPT ![w] = "TRUE"]
                    /\ pc' = [pc EXCEPT ![w] = "render"]
                    /\ UNCHANGED <<rv, waited>>
               [] OTHER ->
                    /\ rv' = [rv EXCEPT ![w] = "LOCKED"]
                    /\ waited' = [waited EXCEPT ![w] = 0]
                    /\ ret' = [ret EXCEPT ![w] = "NONE"]
                    /\ pc' = [pc EXCEPT ![w] = "check"]
  /\ UNCHANGED <<cache, res, sleepLeft, retries, resp>>
  /\ UNCHANGED besidesLock

(* lock_or_wait, lines 84-91: loop test, timeout test, start of the sleep *)
LockOrWaitCheck(w) ==
  /\ pc[w] = "check"
  /\ rv[w] # "NOENT"
  /\ IF TimedOut(waited[w])
       THEN /\ files' = mapcache_unlock_resource(files, lock[w])
            /\ ret' = [ret EXCEPT ![w] = "FALSE"]
            /\ pc' = [pc EXCEPT ![w] = "reget"]
            /\ hist' = [hist EXCEPT !.released[w] = @ + 1,
                                    !.pathRel[w] = @ + 1,
                                    !.logs[w] = @ + 1,
                                    !.timeouts[w] = @ + 1,
                                    !.atCheck[w] = waited[w],
                                    !.path[w] = "timeout",
                                    !.everRel[lock[w]] = TRUE,
                                    !.holders[lock[w]] = {}]
            /\ UNCHANGED sleepLeft
       ELSE /\ sleepLeft' = [sleepLeft EXCEPT ![w] = RetryInterval]
            /\ pc' = [pc EXCEPT ![w] = "sleep"]
            /\ hist' = [hist EXCEPT !.atCheck[w] = waited[w],
                                    !.sleeps[w] = @ + 1]
            /\ UNCHANGED <<files, ret>>
  /\ UNCHANGED <<cache, res, lock, rv, waited, retries, resp, ctxErr>>
  /\ UNCHANGED besidesLock

(* lock_or_wait, lines 91-94: the sleep is over, ping, loop test *)
LockOrWaitPing(w) ==
  /\ pc[w] = "sleep"
  /\ sleepLeft[w] = 0
  /\ LET p == mapcache_locker_disk_ping_lock(files, lock[w])
     IN /\ rv' = [rv EXCEPT ![w] = p]
        /\ IF p = "NOENT"
             THEN /\ ret' = [ret EXCEPT ![w] = "FALSE"]
                  /\ pc' = [pc EXCEPT ![w] = "reget"]
                  /\ hist' = [hist EXCEPT !.path[w] = "noent", !.pings[w] = @ + 1]
             ELSE /\ pc' = [pc EXCEPT ![w] = "check"]
                  /\ hist' = [hist EXCEPT !.pings[w] = @ + 1]
                  /\ UNCHANGED ret
  /\ UNCHANGED <<files, cache, res, lock, waited, sleepLeft, retries, resp, ctxErr>>
  /\ UNCHANGED besidesLock

(* time passes for every worker inside the wait loop *)
Tick ==
  /\ \E w \in Workers : \/ (pc[w] \in {"check", "sleep"} /\ waited[w] < WaitCap)
                         \/ (pc[w] = "sleep" /\ sleepLeft[w] > 0)
  /\ waited' = [w \in Workers |->
                  IF pc[w] \in {"check", "sleep"} /\ waited[w] < WaitCap
                    THEN waited[w] + 1 ELSE waited[w]]
  /\ sleepLeft' = [w \in Workers |->
                     IF pc[w] = "sleep" /\ sleepLeft[w] > 0
                       THEN sleepLeft[w] - 1 ELSE sleepLeft[w]]
  /\ UNCHANGED <<files, cache, pc, res, lock, rv, ret, retries, resp, ctxErr, hist>>
  /\ UNCHANGED besidesLock

(* the renderer produces the metatile *)
Render(w) ==
  /\ pc[w] = "render"
  /\ pc' = [pc EXCEPT ![w] = "set"]
  /\ hist' = [hist EXCEPT !.renders[res[w]] = @ + 1]
  /\ UNCHANGED <<files, cache, res, lock, rv, ret, waited, sleepLeft, retries,
                 resp, ctxErr>>
  /\ UNCHANGED besidesLock

(* cache.set of the rendered tiles *)
TileSet(w) ==
  /\ pc[w] = "set"
  /\ cache' = [cache EXCEPT ![res[w]] = w]
  /\ pc' = [pc EXCEPT ![w] = "unlock"]
  /\ UNCHANGED <<files, res, lock, rv, ret, waited, sleepLeft, retries, resp,
                 ctxErr, hist>>
  /\ UNCHANGED besidesLock

(* unlock and respond *)
Unlock(w) ==
  /\ pc[w] = "unlock"
  /\ files' = mapcache_unlock_resource(files, lock[w])
  /\ resp' = [resp EXCEPT ![w] = w]
  /\ pc' = [pc EXCEPT ![w] = "done"]
  /\ hist' = [hist EXCEPT !.released[w] = @ + 1,
                          !.everRel[lock[w]] = TRUE,
                          !.holders[lock[w]] = {}]
  /\ UNCHANGED <<cache, res, lock, rv, ret, waited, sleepLeft, retries, ctxErr>>
  /\ UNCHANGED besidesLock

(* lock_or_wait returned false: re-get; one re-render if it still misses *)
ReGet(w) ==
  /\ pc[w] = "reget"
  /\ IF cache[res[w]] # 0
       THEN /\ resp' = [resp EXCEPT ![w] = cache[res[w]]]
            /\ pc' = [pc EXCEPT ![w] = "done"]
            /\ UNCHANGED <<retries, ctxErr>>
       ELSE IF retries[w] = 0
         THEN /\ retries' = [retries EXCEPT ![w] = 1]
              /\ pc' = [pc EXCEPT ![w] = "lock"]
              /\ UNCHANGED <<resp, ctxErr>>
         ELSE /\ ctxErr' = [ctxErr EXCEPT ![w] = 500]
              /\ pc' = [pc EXCEPT ![w] = "error"]
              /\ UNCHANGED <<resp, retries>>
  /\ UNCHANGED <<files, cache, res, lock, rv, ret, waited, sleepLeft, hist>>
  /\ UNCHANGED besidesLock

(* ---------------------- resource-name canonicalization ---------------- *)
CanonChars == MemcacheUnsafe \cup {"#", "a"}

RECURSIVE SeqsUpTo(_, _)
SeqsUpTo(S, n) ==
  IF n = 0 THEN {<<>>}
  ELSE LET shorter == SeqsUpTo(S, n - 1)
       IN shorter \cup {Append(q, c) : q \in shorter, c \in S}

KeyPrefixes == {<<>>, <<"p", "/">>}

CanonInit ==
  /\ cRes \in SeqsUpTo(CanonChars, MaxLen)
  /\ cPrefix \in KeyPrefixes
  /\ cDisk = <<>>
  /\ cKey = <<>>

CanonIdle ==
  /\ cRes = <<>>
  /\ cPrefix = <<>>
  /\ cDisk = <<>>
  /\ cKey = <<>>

DiskLockName ==
  /\ cDisk = <<>>
  /\ cDisk' = lock_filename_for_resource(LockDir, cRes)
  /\ UNCHANGED <<cRes, cPrefix, cKey>>
  /\ UNCHANGED besidesCanon

MemcacheLockKey ==
  /\ cKey = <<>>
  /\ cKey' = memcache_key_for_resource(cPrefix, cRes)
  /\ UNCHANGED <<cRes, cPrefix, cDisk>>
  /\ UNCHANGED besidesCanon

CanonNext == DiskLockName \/ MemcacheLockKey

(* ------------------------------ multitier cache ------------------------ *)
Tiers == 0..(NTiers - 1)

TileBytes == {1, 2}

(* a child backend's get, by the backend contract: Failure sets a 500 error *)
SubcacheGet(content, fail) ==
  IF fail THEN [ret |-> "FAILURE", data |-> 0, err |-> 500]
  ELSE IF content = 0 THEN [ret |-> "MISS", data |-> 0, err |-> 0]
  ELSE [ret |-> "SUCCESS", data |-> content, err |-> 0]

(* a child backend's set: stores the tile's encoded data, or fails with 500 *)
SubcacheSet(content, data, fail) ==
  IF fail THEN [content |-> content, tile |-> data, res |-> "FAILURE", err |-> 500]
  ELSE [content |-> data, tile |-> data, res |-> "OK", err |-> 0]

(* the encoded data of a tile whose image has one colour, and the 5 bytes   *)
(* '#' r g b a that the Riak set puts in its place                          *)
UniformTile == 2

BlankSentinel == 3

(* cache_riak2.c 462-475, 495-509: with detect_blank the set replaces the   *)
(* encoded data of the caller's tile by the sentinel when the image is      *)
(* blank, before it borrows a connection; the put stores the tile's data.   *)
(* The image decoded for the first such set stays in tile->raw_image.       *)
RiakBlankSet(content, data, fail) ==
  LET encoded_data == IF data \in {UniformTile, BlankSentinel} THEN BlankSentinel ELSE data
  IN IF fail THEN [content |-> content, tile |-> encoded_data, res |-> "FAILURE", err |-> 500]
     ELSE [content |-> encoded_data, tile |-> encoded_data, res |-> "OK", err |-> 0]

(* line 866: the tile_set of the child, whatever backend it is *)
ChildSet(blank, content, data, fail) ==
  IF blank THEN RiakBlankSet(content, data, fail) ELSE SubcacheSet(content, data, fail)

(* st: [caches, tile, err, log, ret, blank]; sf: the tiers whose set fails *)
RECURSIVE PromoteSkipFirst(_, _, _)
PromoteSkipFirst(i, st, sf) ==
  IF i <= 0 THEN st
  ELSE LET r == SubcacheSet(st.caches[i], st.tile, i \in sf)
       IN PromoteSkipFirst(i - 1,
            [st EXCEPT !.caches[i] = r.content,
                       !.err = 0,
                       !.log = Append(@, <<"set", i, r.res>>)], sf)

RECURSIVE PromoteStopOnError(_, _, _)
PromoteStopOnError(i, st, sf) ==
  IF i < 0 THEN st
  ELSE LET r == SubcacheSet(st.caches[i], st.tile, i \in sf)
           st1 == [st EXCEPT !.caches[i] = r.content,
                             !.err = r.err,
                             !.log = Append(@, <<"set", i, r.res>>)]
       IN IF r.err # 0 THEN st1 ELSE PromoteStopOnError(i - 1, st1, sf)

RECURSIVE PromoteAscending(_, _, _)
PromoteAscending(i, st, sf) ==
  IF i < 0 THEN st
  ELSE LET st0 == PromoteAscending(i - 1, st, sf)
           r == SubcacheSet(st0.caches[i], st0.tile, i \in sf)
       IN [st0 EXCEPT !.caches[i] = r.content,
                      !.err = 0,
                      !.log = Append(@, <<"set", i, r.res>>)]

PromoteWithHit(i, st, sf) == PromoteAscending(i + 1, st, sf)

(* lines 864-869: for(--i; i>=0; i--) { set; clear_errors; } *)
RECURSIVE Promote(_, _, _)
Promote(i, st, sf) ==
  IF i < 0 THEN st
  ELSE LET r == ChildSet(i \in st.blank, st.caches[i], st.tile, i \in sf)
       IN Promote(i - 1,
            [st EXCEPT !.caches[i] = r.content,
                       !.tile = r.tile,
                       !.err = 0,
                       !.log = Append(@, <<"set", i, r.res>>)], sf)

(* lines 860-873: for(i=1; i<nelts; i++) if(get == SUCCESS) {...} *)
RECURSIVE Descend(_, _, _, _)
Descend(i, st, gf, sf) ==
  IF i >= NTiers THEN [st EXCEPT !.ret = "MISS"]
  ELSE LET g == SubcacheGet(st.caches[i], i \in gf)
           st1 == [st EXCEPT !.tile = IF g.ret = "SUCCESS" THEN g.data ELSE @,
                             !.err = IF g.err # 0 THEN g.err ELSE @,
                             !.log = Append(@, <<"get", i, g.ret>>)]
       IN IF g.ret = "SUCCESS"
            THEN Promote(i - 1, [st1 EXCEPT !.ret = "SUCCESS"], sf)
            ELSE Descend(i + 1, st1, gf, sf)

(* lines 851-878; gf, sf: the tiers whose get, set fails during this call; *)
(* blank: the tiers that are Riak caches with detect_blank set              *)
multitier_tile_get(caches, gf, sf, blank) ==
  LET g == SubcacheGet(caches[0], 0 \in gf)
      st == [caches |-> caches,
             tile |-> g.data,
             err |-> g.err,
             log |-> << <<"get", 0, g.ret>> >>,
             ret |-> g.ret,
             blank |-> blank]
  IN IF g.ret = "MISS" THEN Descend(1, st, gf, sf) ELSE st

(* a child backend's multi_set: stores every tile of the batch or fails;   *)
(* tiles[1] is the tile whose content the tiers of the model hold           *)
SubcacheMultiSet(content, tiles, fail) ==
  IF fail THEN [content |-> content, res |-> "FAILURE", err |-> 500]
  ELSE [content |-> tiles[1], res |-> "OK", err |-> 0]

(* a child backend's delete: removes the tile, or fails with 500 *)
SubcacheDelete(content, fail) ==
  IF fail THEN [content |-> content, res |-> "FAILURE", err |-> 500]
  ELSE [content |-> 0, res |-> "OK", err |-> 0]

(* a child backend's exists: a failing backend reports false, with a 500 *)
SubcacheExists(content, fail) ==
  IF fail THEN [ret |-> "FALSE", err |-> 500]
  ELSE [ret |-> IF content # 0 THEN "TRUE" ELSE "FALSE", err |-> 0]

TileBatches == {<<a>> : a \in TileBytes} \cup {<<a, b>> : a, b \in TileBytes}

SetOnTierZero(caches, w, data, fail) ==
  LET r == SubcacheSet(caches[0], data, fail)
  IN [caches |-> [caches EXCEPT ![0] = r.content],
      tile |-> data,
      err |-> r.err,
      log |-> << <<"set", 0, r.res>> >>,
      ret |-> "NONE"]

(* lines 880-885: the set of the child at write_cache_idx, nothing else *)
multitier_tile_set(caches, w, data, fail) ==
  LET r == SubcacheSet(caches[w], data, fail)
  IN [caches |-> [caches EXCEPT ![w] = r.content],
      tile |-> data,
      err |-> r.err,
      log |-> << <<"set", w, r.res>> >>,
      ret |-> "NONE"]

(* lines 887-892: the multi_set of the child at write_cache_idx *)
multitier_tile_multi_set(caches, w, tiles, fail) ==
  LET r == SubcacheMultiSet(caches[w], tiles, fail)
  IN [caches |-> [caches EXCEPT ![w] = r.content],
      tile |-> tiles[1],
      err |-> r.err,
      log |-> << <<"multi_set", w, r.res>> >>,
      ret |-> "NONE"]

RECURSIVE DeleteStopOnError(_, _, _)
DeleteStopOnError(i, st, df) ==
  IF i >= NTiers THEN st
  ELSE LET r == SubcacheDelete(st.caches[i], i \in df)
           st1 == [st EXCEPT !.caches[i] = r.content,
                             !.err = r.err,
                             !.log = Append(@, <<"delete", i, r.res>>)]
       IN IF r.err # 0 THEN st1 ELSE DeleteStopOnError(i + 1, st1, df)

(* lines 836-840: for(i=0; i<nelts; i++) { delete; clear_errors; } *)
RECURSIVE DeleteFrom(_, _, _)
DeleteFrom(i, st, df) ==
  IF i >= NTiers THEN st
  ELSE LET r == SubcacheDelete(st.caches[i], i \in df)
       IN DeleteFrom(i + 1,
            [st EXCEPT !.caches[i] = r.content,
                       !.err = 0,
                       !.log = Append(@, <<"delete", i, r.res>>)], df)

(* lines 833-842; df: the tiers whose delete fails during this call *)
multitier_tile_delete(caches, df) ==
  DeleteFrom(0, [caches |-> caches, tile |-> 0, err |-> 0,
                 log |-> <<>>, ret |-> "NONE"], df)

ExistsInTierZeroOnly(i, st, xf) ==
  LET x == SubcacheExists(st.caches[0], 0 \in xf)
  IN [st EXCEPT !.err = x.err,
                !.log = Append(@, <<"exists", 0, x.ret>>),
                !.ret = x.ret]

(* lines 823-829: for(i=0; i<nelts; i++) if(exists == TRUE) return TRUE *)
RECURSIVE ExistsFrom(_, _, _)
ExistsFrom(i, st, xf) ==
  IF i >= NTiers THEN [st EXCEPT !.ret = "FALSE"]
  ELSE LET x == SubcacheExists(st.caches[i], i \in xf)
           st1 == [st EXCEPT !.err = IF x.err # 0 THEN x.err ELSE @,
                             !.log = Append(@, <<"exists", i, x.ret>>)]
       IN IF x.ret = "TRUE" THEN [st1 EXCEPT !.ret = "TRUE"]
          ELSE ExistsFrom(i + 1, st1, xf)

(* lines 820-831; xf: the tiers whose exists fails during this call *)
multitier_tile_exists(caches, xf) ==
  ExistsFrom(0, [caches |-> caches, tile |-> 0, err |-> 0,
                 log |-> <<>>, ret |-> "NONE"], xf)

MTInit ==
  /\ mtCaches \in [Tiers -> {0} \cup TileBytes]
  /\ mtWrite \in Tiers
  /\ mtOp = "none"
  /\ mtPre = mtCaches
  /\ mtTile = 0
  /\ mtRet = "NONE"
  /\ mtErr = 0
  /\ mtLog = <<>>
  /\ mtBlank = {}

(* a multitier cache some of whose children are Riak caches with            *)
(* detect_blank set                                                         *)
MTRiakInit ==
  /\ mtCaches \in [Tiers -> {0} \cup TileBytes]
  /\ mtWrite \in Tiers
  /\ mtOp = "none"
  /\ mtPre = mtCaches
  /\ mtTile = 0
  /\ mtRet = "NONE"
  /\ mtErr = 0
  /\ mtLog = <<>>
  /\ mtBlank \in (SUBSET Tiers) \ {{}}

MTIdle ==
  /\ mtCaches = [t \in Tiers |-> 0]
  /\ mtWrite = 0
  /\ mtOp = "none"
  /\ mtPre = mtCaches
  /\ mtTile = 0
  /\ mtRet = "NONE"
  /\ mtErr = 0
  /\ mtLog = <<>>
  /\ mtBlank = {}

(* one get on the multitier cache, with a fresh context and tile *)
MTGet ==
  \E gf \in SUBSET Tiers, sf \in SUBSET Tiers :
    \E r \in {multitier_tile_get(mtCaches, gf, sf, mtBlank)} :
       /\ mtOp' = "get"
       /\ mtPre' = mtCaches
       /\ mtCaches' = r.caches
       /\ mtTile' = r.tile
       /\ mtRet' = r.ret
       /\ mtErr' = r.err
       /\ mtLog' = r.log
       /\ UNCHANGED <<mtWrite, mtBlank>>
       /\ UNCHANGED besidesMT

(* one set, multi_set, delete, exists, each with a fresh context *)
MTSet ==
  \E data \in TileBytes, fail \in BOOLEAN :
    \E r \in {multitier_tile_set(mtCaches, mtWrite, data, fail)} :
       /\ mtOp' = "set"
       /\ mtPre' = mtCaches
       /\ mtCaches' = r.caches
       /\ mtTile' = r.tile
       /\ mtRet' = r.ret
       /\ mtErr' = r.err
       /\ mtLog' = r.log
       /\ UNCHANGED <<mtWrite, mtBlank>>
       /\ UNCHANGED besidesMT

MTMultiSet ==
  \E tiles \in TileBatches, fail \in BOOLEAN :
    \E r \in {multitier_tile_multi_set(mtCaches, mtWrite, tiles, fail)} :
       /\ mtOp' = "multi_set"
       /\ mtPre' = mtCaches
       /\ mtCaches' = r.caches
       /\ mtTile' = r.tile
       /\ mtRet' = r.ret
       /\ mtErr' = r.err
       /\ mtLog' = r.log
       /\ UNCHANGED <<mtWrite, mtBlank>>
       /\ UNCHANGED besidesMT

MTDelete ==
  \E df \in SUBSET Tiers :
    \E r \in {multitier_tile_delete(mtCaches, df)} :
       /\ mtOp' = "delete"
       /\ mtPre' = mtCaches
       /\ mtCaches' = r.caches
       /\ mtTile' = r.tile
       /\ mtRet' = r.ret
       /\ mtErr' = r.err
       /\ mtLog' = r.log
       /\ UNCHANGED <<mtWrite, mtBlank>>
       /\ UNCHANGED besidesMT

MTExists ==
  \E xf \in SUBSET Tiers :
    \E r \in {multitier_tile_exists(mtCaches, xf)} :
       /\ mtOp' = "exists"
       /\ mtPre' = mtCaches
       /\ mtCaches' = r.caches
       /\ mtTile' = r.tile
       /\ mtRet' = r.ret
       /\ mtErr' = r.err
       /\ mtLog' = r.log
       /\ UNCHANGED <<mtWrite, mtBlank>>
       /\ UNCHANGED besidesMT

MTNext == MTGet \/ MTSet \/ MTMultiSet \/ MTDelete \/ MTExists

MTRiakNext == MTGet

(* ------------------------ multitier configuration ---------------------- *)
(* a <cache> child: its write attribute ("absent" when it has none) and     *)
(* whether the cache it names was declared before                           *)
WriteAttrs == {"absent", "true", "false", "yes"}

ChildDecls == [write : WriteAttrs, declared : BOOLEAN]

(* st: [caches, write_cache_idx, rw_cache, err]; children[i + 1] is child i *)
RECURSIVE ParseChildrenFirstDefault(_, _, _)
ParseChildrenFirstDefault(i, st, children) ==
  IF i >= Len(children) THEN st
  ELSE LET c == children[i + 1]
           dup == c.write = "true" /\ st.write_cache_idx >= 0
           st1 == [st EXCEPT
                     !.write_cache_idx = IF c.write = "true" THEN i ELSE @,
                     !.rw_cache = IF c.write = "absent" /\ @ < 0 THEN i ELSE @]
       IN IF dup THEN [st EXCEPT !.err = 400]
          ELSE IF ~c.declared THEN [st1 EXCEPT !.err = 400]
          ELSE ParseChildrenFirstDefault(i + 1,
                 [st1 EXCEPT !.caches = Append(@, i)], children)

RECURSIVE ParseChildrenLastTrueWins(_, _, _)
ParseChildrenLastTrueWins(i, st, children) ==
  IF i >= Len(children) THEN st
  ELSE LET c == children[i + 1]
           st1 == [st EXCEPT
                     !.write_cache_idx = IF c.write = "true" THEN i ELSE @,
                     !.rw_cache = IF c.write = "absent" THEN i ELSE @]
       IN IF ~c.declared THEN [st1 EXCEPT !.err = 400]
          ELSE ParseChildrenLastTrueWins(i + 1,
                 [st1 EXCEPT !.caches = Append(@, i)], children)

(* lines 903-927: the loop over the <cache> children *)
RECURSIVE ParseChildren(_, _, _)
ParseChildren(i, st, children) ==
  IF i >= Len(children) THEN st
  ELSE LET c == children[i + 1]
           dup == c.write = "true" /\ st.write_cache_idx >= 0
           st1 == [st EXCEPT
                     !.write_cache_idx = IF c.write = "true" THEN i ELSE @,
                     !.rw_cache = IF c.write = "absent" THEN i ELSE @]
       IN IF dup THEN [st EXCEPT !.err = 400]
          ELSE IF ~c.declared THEN [st1 EXCEPT !.err = 400]
          ELSE ParseChildren(i + 1,
                 [st1 EXCEPT !.caches = Append(@, i)], children)

(* lines 897-942, on a cache fresh from mapcache_cache_multitier_create *)
multitier_configuration_parse_xml(children, write_cache_idx) ==
  LET st == ParseChildren(0, [caches |-> <<>>,
                              write_cache_idx |-> write_cache_idx,
                              rw_cache |-> -1,
                              err |-> 0], children)
  IN IF st.err # 0 THEN st
     ELSE IF Len(st.caches) = 0 THEN [st EXCEPT !.err = 400]
     ELSE IF st.write_cache_idx >= 0 THEN st
     ELSE IF st.rw_cache < 0 THEN [st EXCEPT !.err = 400]
     ELSE [st EXCEPT !.write_cache_idx = st.rw_cache]

(* lines 956-975: write_cache_idx = -1, nothing parsed yet *)
CfgInit ==
  /\ cfgChildren \in SeqsUpTo(ChildDecls, NTiers)
  /\ cfgCaches = <<>>
  /\ cfgWriteIdx = -1
  /\ cfgErr = 0
  /\ cfgParsed = FALSE

CfgIdle ==
  /\ cfgChildren = <<>>
  /\ cfgCaches = <<>>
  /\ cfgWriteIdx = -1
  /\ cfgErr = 0
  /\ cfgParsed = FALSE

MTParseXml ==
  /\ ~cfgParsed
  /\ LET st == multitier_configuration_parse_xml(cfgChildren, cfgWriteIdx)
     IN /\ cfgCaches' = st.caches
        /\ cfgWriteIdx' = st.write_cache_idx
        /\ cfgErr' = st.err
  /\ cfgParsed' = TRUE
  /\ UNCHANGED cfgChildren
  /\ UNCHANGED besidesCfg

CfgNext == MTParseXml

(* ------------------------------ fallback locker ------------------------ *)
(* the children are disk lockers, child c over its own directory            *)
Lockers == 0..(NLockers - 1)

FbDir(c) == LockDir \o <<"/">> \o [k \in 1..(c + 1) |-> "d"]

FbLockName(c, resource) == lock_filename_for_resource(FbDir(c), resource)

FbLockFiles == {FbLockName(c, r) : c \in Lockers, r \in Resources}

NoError == <<>>

NullLocker == -1

(* ctx->pop_errors: the context's error moves to the saved slot *)
context_pop_errors(err) == [saved |-> err, err |-> NoError]

(* ctx->push_errors: a saved error comes back in front of the current one *)
context_push_errors(err, saved) == IF saved # NoError THEN saved ELSE err

(* the child's acquire; its error names the lock file it could not create *)
FbChildAquire(fs, c, resource, ioerr) ==
  LET r == mapcache_locker_disk_aquire_lock(fs, FbLockName(c, resource), ioerr)
  IN [rv |-> r.rv, fs |-> r.fs, lock |-> FbLockName(c, resource),
      err |-> IF r.err # 0 THEN <<r.err, FbLockName(c, resource)>> ELSE NoError]

(* st: [files, tok, rv, err, log]; ff: the children whose acquire fails *)
RECURSIVE FbTryOwnerIsFirstChild(_, _, _, _)
FbTryOwnerIsFirstChild(i, st, resource, ff) ==
  IF i >= NLockers THEN [st EXCEPT !.rv = "NOENT"]
  ELSE LET p == context_pop_errors(st.err)
           r == FbChildAquire(st.files[i], i, resource, i \in ff)
           st1 == [st EXCEPT !.files[i] = r.fs,
                             !.tok.lock = r.lock,
                             !.log = Append(@, <<"aquire", i, r.lock,
                                        IF r.err # NoError THEN "ERROR" ELSE r.rv>>)]
       IN IF r.err = NoError
            THEN [st1 EXCEPT !.tok.locker = 0,
                             !.err = context_push_errors(NoError, p.saved),
                             !.rv = r.rv]
            ELSE FbTryOwnerIsFirstChild(i + 1,
                   [st1 EXCEPT !.err = context_push_errors(
                       IF i < NLockers - 1 THEN NoError ELSE r.err, p.saved)],
                   resource, ff)

RECURSIVE FbTryClearAlways(_, _, _, _)
FbTryClearAlways(i, st, resource, ff) ==
  IF i >= NLockers THEN [st EXCEPT !.rv = "NOENT"]
  ELSE LET p == context_pop_errors(st.err)
           r == FbChildAquire(st.files[i], i, resource, i \in ff)
           st1 == [st EXCEPT !.files[i] = r.fs,
                             !.tok.lock = r.lock,
                             !.log = Append(@, <<"aquire", i, r.lock,
                                        IF r.err # NoError THEN "ERROR" ELSE r.rv>>)]
       IN IF r.err = NoError
            THEN [st1 EXCEPT !.tok.locker = i,
                             !.err = context_push_errors(NoError, p.saved),
                             !.rv = r.rv]
            ELSE FbTryClearAlways(i + 1,
                   [st1 EXCEPT !.err = context_push_errors(NoError, p.saved)],
                   resource, ff)

(* lines 200-217: one turn of the loop over the children, from child i *)
RECURSIVE FbTry(_, _, _, _)
FbTry(i, st, resource, ff) ==
  IF i >= NLockers THEN [st EXCEPT !.rv = "NOENT"]
  ELSE LET p == context_pop_errors(st.err)
           r == FbChildAquire(st.files[i], i, resource, i \in ff)
           st1 == [st EXCEPT !.files[i] = r.fs,
                             !.tok.lock = r.lock,
                             !.log = Append(@, <<"aquire", i, r.lock,
                                        IF r.err # NoError THEN "ERROR" ELSE r.rv>>)]
       IN IF r.err = NoError
            THEN [st1 EXCEPT !.tok.locker = i,
                             !.err = context_push_errors(NoError, p.saved),
                             !.rv = r.rv]
            ELSE FbTry(i + 1,
                   [st1 EXCEPT !.err = context_push_errors(
                       IF i < NLockers - 1 THEN NoError ELSE r.err, p.saved)],
                   resource, ff)

(* lines 195-219, called with a context that carries no error *)
mapcache_locker_fallback_aquire_lock(fs, resource, ff) ==
  FbTry(0, [files |-> fs,
            tok |-> [locker |-> NullLocker, lock |-> <<>>],
            rv |-> "NONE",
            err |-> NoError,
            log |-> <<>>], resource, ff)

(* lines 190-193: flock->locker->ping_lock(ctx, flock->locker, flock->lock) *)
mapcache_locker_fallback_ping_lock(fs, tok) ==
  LET result == mapcache_locker_disk_ping_lock(fs[tok.locker], tok.lock)
  IN [rv |-> result,
      log |-> << <<"ping", tok.locker, tok.lock, result>> >>]

(* lines 185-188: flock->locker->release_lock(..., flock->lock) *)
mapcache_locker_fallback_release_lock(fs, tok) ==
  [files |-> [fs EXCEPT ![tok.locker] =
                mapcache_locker_disk_release_lock(@, tok.lock)],
   log |-> << <<"release", tok.locker, tok.lock, "NONE">> >>]

FbInit ==
  /\ fbFiles = [c \in Lockers |-> {}]
  /\ fbPc = [w \in Workers |-> "idle"]
  /\ fbRes \in [Workers -> Resources]
  /\ fbTok = [w \in Workers |-> [locker |-> NullLocker, lock |-> <<>>]]
  /\ fbRv = [w \in Workers |-> "NONE"]
  /\ fbErr = [w \in Workers |-> NoError]
  /\ fbLog = [w \in Workers |-> <<>>]

FbIdle ==
  /\ fbFiles = [c \in Lockers |-> {}]
  /\ fbPc = [w \in Workers |-> "idle"]
  /\ fbRes = [w \in Workers |-> <<"l", "/", "1">>]
  /\ fbTok = [w \in Workers |-> [locker |-> NullLocker, lock |-> <<>>]]
  /\ fbRv = [w \in Workers |-> "NONE"]
  /\ fbErr = [w \in Workers |-> NoError]
  /\ fbLog = [w \in Workers |-> <<>>]

(* a worker, with a fresh context, acquires its resource *)
FbAquire(w) ==
  /\ fbPc[w] \in {"idle", "failed"}
  /\ \E ff \in SUBSET Lockers :
       \E r \in {mapcache_locker_fallback_aquire_lock(fbFiles, fbRes[w], ff)} :
          /\ fbFiles' = r.files
          /\ fbTok' = [fbTok EXCEPT ![w] = r.tok]
          /\ fbRv' = [fbRv EXCEPT ![w] = r.rv]
          /\ fbErr' = [fbErr EXCEPT ![w] = r.err]
          /\ fbLog' = [fbLog EXCEPT ![w] = r.log]
          /\ fbPc' = [fbPc EXCEPT ![w] =
                        IF r.err # NoError THEN "failed"
                        ELSE IF r.rv = "AQUIRED" THEN "own" ELSE "wait"]
  /\ UNCHANGED fbRes
  /\ UNCHANGED besidesFb

(* a waiter pings with the token its acquire returned *)
FbPing(w) ==
  /\ fbPc[w] = "wait"
  /\ LET r == mapcache_locker_fallback_ping_lock(fbFiles, fbTok[w])
     IN /\ fbRv' = [fbRv EXCEPT ![w] = r.rv]
        /\ fbLog' = [fbLog EXCEPT ![w] = r.log]
        /\ fbPc' = [fbPc EXCEPT ![w] = IF r.rv = "NOENT" THEN "idle" ELSE "wait"]
  /\ UNCHANGED <<fbFiles, fbRes, fbTok, fbErr>>
  /\ UNCHANGED besidesFb

(* the owner releases with the token its acquire returned *)
FbRelease(w) ==
  /\ fbPc[w] = "own"
  /\ LET r == mapcache_locker_fallback_release_lock(fbFiles, fbTok[w])
     IN /\ fbFiles' = r.files
        /\ fbLog' = [fbLog EXCEPT ![w] = r.log]
  /\ fbRv' = [fbRv EXCEPT ![w] = "NONE"]
  /\ fbPc' = [fbPc EXCEPT ![w] = "idle"]
  /\ UNCHANGED <<fbRes, fbTok, fbErr>>
  /\ UNCHANGED besidesFb

FbNext ==
  \/ \E w \in Workers : FbAquire(w)
  \/ \E w \in Workers : FbPing(w)
  \/ \E w \in Workers : FbRelease(w)

(* ------------------------------ memcache locker ------------------------ *)
(* locker timeouts the parser accepts (strtod, > 0), in tenths of a second: *)
(* 0.5 s, 1 s, 2.5 s                                                        *)
McTimeouts == {5, 10, 25}

(* line 357: the double timeout passed as the apr_uint32_t argument of     *)
(* apr_memcache_add; the fraction is dropped (whole seconds; the timeouts  *)
(* here are far below 2^32)                                                *)
TimeoutAsUint32(timeout) == timeout \div 10

NullLock == [memcache |-> FALSE, lockname |-> <<>>]

NoCall == [op |-> "none", key |-> <<>>, status |-> "NONE", exp |-> 0,
           present |-> FALSE, after |-> FALSE]

(* the call record: key, apr status, expiration handed over in tenths of a  *)
(* second, whether the key was present before and is present after         *)
McCalled(op, key, status, exp, store, after) ==
  [op |-> op, key |-> key, status |-> status, exp |-> exp,
   present |-> key \in DOMAIN store, after |-> key \in DOMAIN after]

(* lines 346-366; createErr: create_memcache fails; addErr: add fails with  *)
(* a status other than EEXIST                                               *)
mapcache_locker_memcache_aquire_lock(store, key_prefix, resource, timeout, tok, createErr, addErr) ==
  LET lockname == memcache_key_for_resource(key_prefix, resource)
      stored == [k \in DOMAIN store \cup {lockname} |->
                   IF k = lockname THEN TimeoutAsUint32(timeout) ELSE store[k]]
  IN IF createErr
       THEN [rv |-> "NOENT", err |-> 500, store |-> store, tok |-> tok,
             call |-> McCalled("aquire", lockname, "NOTCALLED", 0, store, store)]
     ELSE IF addErr
       THEN [rv |-> "NOENT", err |-> 500, store |-> store,
             tok |-> [memcache |-> TRUE, lockname |-> lockname],
             call |-> McCalled("aquire", lockname, "ERROR",
                               10 * TimeoutAsUint32(timeout), store, store)]
     ELSE IF lockname \in DOMAIN store
       THEN [rv |-> "LOCKED", err |-> 0, store |-> store,
             tok |-> [memcache |-> TRUE, lockname |-> lockname],
             call |-> McCalled("aquire", lockname, "EEXIST",
                               10 * TimeoutAsUint32(timeout), store, store)]
     ELSE [rv |-> "AQUIRED", err |-> 0, store |-> stored,
           tok |-> [memcache |-> TRUE, lockname |-> lockname],
           call |-> McCalled("aquire", lockname, "SUCCESS",
                             10 * TimeoutAsUint32(timeout), store, stored)]

(* lines 331-343; getErr: apr_memcache_getp fails on a present key *)
mapcache_locker_memcache_ping_lock(store, tok, getErr) ==
  IF ~tok.memcache \/ tok.lockname = <<>>
    THEN [rv |-> "NOENT",
          call |-> McCalled("ping", tok.lockname, "NOTCALLED", 0, store, store)]
  ELSE IF tok.lockname \in DOMAIN store /\ ~getErr
    THEN [rv |-> "LOCKED",
          call |-> McCalled("ping", tok.lockname, "SUCCESS", 0, store, store)]
  ELSE [rv |-> "NOENT",
        call |-> McCalled("ping", tok.lockname,
                          IF tok.lockname \in DOMAIN store THEN "ERROR" ELSE "NOTFOUND",
                          0, store, store)]

(* lines 368-382; delErr: apr_memcache_delete fails *)
mapcache_locker_memcache_release_lock(store, tok, delErr) ==
  LET deleted == [k \in DOMAIN store \ {tok.lockname} |-> store[k]]
  IN IF ~tok.memcache \/ tok.lockname = <<>>
       THEN [store |-> store, err |-> 0,
             call |-> McCalled("release", tok.lockname, "NOTCALLED", 0, store, store)]
     ELSE IF delErr
       THEN [store |-> store, err |-> 500,
             call |-> McCalled("release", tok.lockname, "ERROR", 0, store, store)]
     ELSE [store |-> deleted, err |-> 0,
           call |-> McCalled("release", tok.lockname,
                             IF tok.lockname \in DOMAIN store THEN "SUCCESS" ELSE "NOTFOUND",
                             0, store, deleted)]

McInit ==
  /\ mcStore = <<>>
  /\ mcTimeout \in McTimeouts
  /\ mcPrefix \in KeyPrefixes
  /\ mcPc = [w \in Workers |-> "idle"]
  /\ mcRes \in [Workers -> Resources]
  /\ mcTok = [w \in Workers |-> NullLock]
  /\ mcRv = [w \in Workers |-> "NONE"]
  /\ mcErr = [w \in Workers |-> 0]
  /\ mcCall = [w \in Workers |-> NoCall]

McIdle ==
  /\ mcStore = <<>>
  /\ mcTimeout = 10
  /\ mcPrefix = <<>>
  /\ mcPc = [w \in Workers |-> "idle"]
  /\ mcRes = [w \in Workers |-> <<"l", "/", "1">>]
  /\ mcTok = [w \in Workers |-> NullLock]
  /\ mcRv = [w \in Workers |-> "NONE"]
  /\ mcErr = [w \in Workers |-> 0]
  /\ mcCall = [w \in Workers |-> NoCall]

(* a worker, with a fresh context and an unset *lock, acquires its resource *)
McAquire(w) ==
  /\ mcPc[w] \in {"idle", "failed"}
  /\ \E createErr \in BOOLEAN, addErr \in BOOLEAN :
       LET r == mapcache_locker_memcache_aquire_lock(mcStore, mcPrefix, mcRes[w],
                  mcTimeout, NullLock, createErr, addErr)
       IN /\ mcStore' = r.store
          /\ mcTok' = [mcTok EXCEPT ![w] = r.tok]
          /\ mcRv' = [mcRv EXCEPT ![w] = r.rv]
          /\ mcErr' = [mcErr EXCEPT ![w] = r.err]
          /\ mcCall' = [mcCall EXCEPT ![w] = r.call]
          /\ mcPc' = [mcPc EXCEPT ![w] =
                        IF r.err # 0 THEN "failed"
                        ELSE IF r.rv = "AQUIRED" THEN "own" ELSE "wait"]
  /\ UNCHANGED <<mcTimeout, mcPrefix, mcRes>>
  /\ UNCHANGED besidesMc

McPing(w) ==
  /\ mcPc[w] = "wait"
  /\ \E getErr \in BOOLEAN :
       LET r == mapcache_locker_memcache_ping_lock(mcStore, mcTok[w], getErr)
       IN /\ mcRv' = [mcRv EXCEPT ![w] = r.rv]
          /\ mcCall' = [mcCall EXCEPT ![w] = r.call]
          /\ mcPc' = [mcPc EXCEPT ![w] = IF r.rv = "NOENT" THEN "idle" ELSE "wait"]
  /\ UNCHANGED <<mcStore, mcTimeout, mcPrefix, mcRes, mcTok, mcErr>>
  /\ UNCHANGED besidesMc

McRelease(w) ==
  /\ mcPc[w] = "own"
  /\ \E delErr \in BOOLEAN :
       LET r == mapcache_locker_memcache_release_lock(mcStore, mcTok[w], delErr)
       IN /\ mcStore' = r.store
          /\ mcErr' = [mcErr EXCEPT ![w] = r.err]
          /\ mcCall' = [mcCall EXCEPT ![w] = r.call]
  /\ mcRv' = [mcRv EXCEPT ![w] = "NONE"]
  /\ mcPc' = [mcPc EXCEPT ![w] = "idle"]
  /\ UNCHANGED <<mcTimeout, mcPrefix, mcRes, mcTok>>
  /\ UNCHANGED besidesMc

(* the server drops a key whose expiration time has passed; expiration 0    *)
(* means the key never expires                                              *)
McExpire ==
  /\ \E k \in DOMAIN mcStore :
       /\ mcStore[k] # 0
       /\ mcStore' = [j \in DOMAIN mcStore \ {k} |-> mcStore[j]]
  /\ UNCHANGED <<mcTimeout, mcPrefix, mcPc, mcRes, mcTok, mcRv, mcErr, mcCall>>
  /\ UNCHANGED besidesMc

McNext ==
  \/ \E w \in Workers : McAquire(w)
  \/ \E w \in Workers : McPing(w)
  \/ \E w \in Workers : McRelease(w)
  \/ McExpire

(* ---------------------------- request handler ------------------------- *)
(* the handler's return values *)
DECLINED == -1
OK == 0
HTTP_METHOD_NOT_ALLOWED == 405

Handlers == {"NULL", "mapcache", "default-handler"}

Methods == {"GET", "POST", "PUT", "HEAD", "DELETE"}

Endpoints == {"/a", "/b", "/c"}

ServerCfgs ==
  {[present |-> FALSE, aliases |-> <<>>]} \cup
  {[present |-> TRUE, aliases |-> a] : a \in {<<>>, <<"/a">>, <<"/a", "/b">>}}

NullCtx == -1

ContextOnLastEntry(cfg, note) ==
  IF ~cfg.present THEN NullCtx
  ELSE IF note = "NONE" THEN NullCtx
  ELSE LET hits == {i \in 0..(Len(cfg.aliases) - 1) : cfg.aliases[i + 1] = note}
       IN IF hits = {} THEN NullCtx
          ELSE CHOOSE i \in hits : \A j \in hits : i >= j

(* lines 200-236: the context is built on the first alias entry whose       *)
(* endpoint equals the note; NULL without config, note or such an entry     *)
apache_request_context_create(cfg, note) ==
  IF ~cfg.present THEN NullCtx
  ELSE IF note = "NONE" THEN NullCtx
  ELSE LET hits == {i \in 0..(Len(cfg.aliases) - 1) : cfg.aliases[i + 1] = note}
       IN IF hits = {} THEN NullCtx
          ELSE CHOOSE i \in hits : \A j \in hits : i <= j

ContextBeforeMethod(handler, method, cfg, note) ==
  IF handler # "mapcache"
    THEN [ret |-> DECLINED, created |-> FALSE, ctx |-> NullCtx, dispatched |-> FALSE]
  ELSE LET ctx == apache_request_context_create(cfg, note)
       IN IF ctx = NullCtx
            THEN [ret |-> DECLINED, created |-> TRUE, ctx |-> NullCtx,
                  dispatched |-> FALSE]
          ELSE IF method \notin {"GET", "POST"}
            THEN [ret |-> HTTP_METHOD_NOT_ALLOWED, created |-> TRUE, ctx |-> ctx,
                  dispatched |-> FALSE]
          ELSE [ret |-> OK, created |-> TRUE, ctx |-> ctx, dispatched |-> TRUE]

(* lines 380-503: admission, then dispatch; the response written after     *)
(* dispatch is reduced to write_http_response's final OK                   *)
mod_mapcache_request_handler(handler, method, cfg, note) ==
  IF handler # "mapcache"
    THEN [ret |-> DECLINED, created |-> FALSE, ctx |-> NullCtx, dispatched |-> FALSE]
  ELSE IF method \notin {"GET", "POST"}
    THEN [ret |-> HTTP_METHOD_NOT_ALLOWED, created |-> FALSE, ctx |-> NullCtx,
          dispatched |-> FALSE]
  ELSE LET ctx == apache_request_context_create(cfg, note)
       IN IF ctx = NullCtx
            THEN [ret |-> DECLINED, created |-> TRUE, ctx |-> NullCtx,
                  dispatched |-> FALSE]
          ELSE [ret |-> OK, created |-> TRUE, ctx |-> ctx, dispatched |-> TRUE]

RqInit ==
  /\ rqHandler \in Handlers
  /\ rqMethod \in Methods
  /\ rqCfg \in ServerCfgs
  /\ rqNote \in {"NONE"} \cup Endpoints
  /\ rqRet = <<>>
  /\ rqCtxCreated = FALSE
  /\ rqCtx = NullCtx
  /\ rqDispatched = FALSE

RqIdle ==
  /\ rqHandler = "NULL"
  /\ rqMethod = "GET"
  /\ rqCfg = [present |-> FALSE, aliases |-> <<>>]
  /\ rqNote = "NONE"
  /\ rqRet = <<>>
  /\ rqCtxCreated = FALSE
  /\ rqCtx = NullCtx
  /\ rqDispatched = FALSE

RequestHandler ==
  /\ rqRet = <<>>
  /\ LET r == mod_mapcache_request_handler(rqHandler, rqMethod, rqCfg, rqNote)
     IN /\ rqRet' = <<r.ret>>
        /\ rqCtxCreated' = r.created
        /\ rqCtx' = r.ctx
        /\ rqDispatched' = r.dispatched
  /\ UNCHANGED <<rqHandler, rqMethod, rqCfg, rqNote>>
  /\ UNCHANGED besidesRq

RqNext == RequestHandler

(* ------------------------------ alias matching ------------------------- *)
UriChars == {"/", "a", "b"}

(* the byte at 0-based position i of a C string; "NUL" is its terminator *)
CharAt(s, i) == IF i < Len(s) THEN s[i + 1] ELSE "NUL"

(* do ++p while p points at '/': first position after p holding no '/'  *)
RECURSIVE SkipSlashes(_, _)
SkipSlashes(s, p) ==
  IF CharAt(s, p + 1) = "/" THEN SkipSlashes(s, p + 1) ELSE p + 1

NoMatch == <<-1, -1>>

(* the loop over the alias from positions aliasp, urip: the positions     *)
(* <<aliasp, urip>> at which it ends, NoMatch when it returns 0           *)
RECURSIVE AliasWalk(_, _, _, _)
AliasWalk(uri, alias, aliasp, urip) ==
  IF CharAt(alias, aliasp) = "NUL" THEN <<aliasp, urip>>
  ELSE IF CharAt(alias, aliasp) = "/"
       THEN IF CharAt(uri, urip) # "/" THEN NoMatch
            ELSE AliasWalk(uri, alias, SkipSlashes(alias, aliasp),
                           SkipSlashes(uri, urip))
       ELSE IF CharAt(uri, urip) # CharAt(alias, aliasp) THEN NoMatch
            ELSE AliasWalk(uri, alias, aliasp + 1, urip + 1)

(* the walk without the test for a path-segment boundary after it *)
AliasMatchesAnyPrefix(uri, alias_fakename, before) ==
  LET w == AliasWalk(uri, alias_fakename, 0, 0)
  IN IF w = NoMatch THEN 0 ELSE w[2]

(* before is the byte in front of the alias string: aliasp[-1] reads it   *)
(* when the alias is empty, any byte may be there                         *)
mapcache_alias_matches(uri, alias_fakename, before) ==
  LET w == AliasWalk(uri, alias_fakename, 0, 0)
      last == IF w[1] = 0 THEN before ELSE CharAt(alias_fakename, w[1] - 1)
  IN IF w = NoMatch THEN 0
     ELSE IF last # "/" /\ CharAt(uri, w[2]) # "NUL" /\ CharAt(uri, w[2]) # "/"
          THEN 0
          ELSE w[2]

AmInit ==
  /\ amUri \in SeqsUpTo(UriChars, MaxLen + 2)
  /\ amAlias \in SeqsUpTo(UriChars, MaxLen + 1)
  /\ amBefore \in IF amAlias = <<>> THEN UriChars \cup {"NUL"} ELSE {"NUL"}
  /\ amRet = <<>>

AmIdle ==
  /\ amUri = <<>>
  /\ amAlias = <<>>
  /\ amBefore = "NUL"
  /\ amRet = <<>>

AliasMatches ==
  /\ amRet = <<>>
  /\ amRet' = <<mapcache_alias_matches(amUri, amAlias, amBefore)>>
  /\ UNCHANGED <<amUri, amAlias, amBefore>>
  /\ UNCHANGED besidesAm

AmNext == AliasMatches

(* ------------------------------ fixups hook ---------------------------- *)
FxEndpoints == {<<"/", "a">>, <<"/", "a", "/", "b">>, <<"/">>, <<"a">>}

FxCfgs ==
  [present : BOOLEAN, aliases : SeqsUpTo(FxEndpoints, NAliases)]

(* the for loop over the aliases from position i (1-based): the position  *)
(* of the last matching entry instead of the first, 0 when none matches   *)
RECURSIVE LastMatch(_, _, _)
LastMatch(uri, aliases, i) ==
  IF i > Len(aliases) THEN 0
  ELSE LET later == LastMatch(uri, aliases, i + 1)
       IN IF later > 0 THEN later
          ELSE IF mapcache_alias_matches(uri, aliases[i], "NUL") > 0 THEN i
               ELSE 0

(* the for loop over the aliases from position i (1-based): the position  *)
(* of the first entry with mapcache_alias_matches > 0, 0 when there is    *)
(* none                                                                   *)
RECURSIVE FirstMatch(_, _, _)
FirstMatch(uri, aliases, i) ==
  IF i > Len(aliases) THEN 0
  ELSE IF mapcache_alias_matches(uri, aliases[i], "NUL") > 0 THEN i
       ELSE FirstMatch(uri, aliases, i + 1)

FxDeclined(handler) ==
  [ret |-> DECLINED, handler |-> handler, note |-> <<>>, path_info |-> <<>>]

mapcache_hook_fixups(handler, cfg, uri) ==
  IF handler # "NULL" THEN FxDeclined(handler)
  ELSE IF ~cfg.present THEN FxDeclined(handler)
  ELSE IF CharAt(uri, 0) # "/" /\ CharAt(uri, 0) # "NUL"
       THEN FxDeclined(handler)
  ELSE LET i == FirstMatch(uri, cfg.aliases, 1)
       IN IF i = 0 THEN FxDeclined(handler)
          ELSE LET l == mapcache_alias_matches(uri, cfg.aliases[i], "NUL")
               IN [ret |-> OK, handler |-> "mapcache",
                   note |-> <<cfg.aliases[i]>>,
                   path_info |-> <<SubSeq(uri, l + 1, Len(uri))>>]

FxInit ==
  /\ fxUri \in SeqsUpTo(UriChars, MaxLen + 2)
  /\ fxCfg \in FxCfgs
  /\ fxHandlerIn \in {"NULL", "default-handler"}
  /\ fxHandler = fxHandlerIn
  /\ fxNote = <<>>
  /\ fxPathInfo = <<>>
  /\ fxRet = <<>>

FxIdle ==
  /\ fxUri = <<>>
  /\ fxCfg = [present |-> FALSE, aliases |-> <<>>]
  /\ fxHandlerIn = "NULL"
  /\ fxHandler = "NULL"
  /\ fxNote = <<>>
  /\ fxPathInfo = <<>>
  /\ fxRet = <<>>

HookFixups ==
  /\ fxRet = <<>>
  /\ \E r \in {mapcache_hook_fixups(fxHandler, fxCfg, fxUri)} :
       /\ fxRet' = <<r.ret>>
       /\ fxHandler' = r.handler
       /\ fxNote' = r.note
       /\ fxPathInfo' = r.path_info
  /\ UNCHANGED <<fxUri, fxCfg, fxHandlerIn>>
  /\ UNCHANGED besidesFx

FxNext == HookFixups

(* --------------------------- server configuration ---------------------- *)
CpOptions == {"cp_min", "cp_smax", "cp_hmax", "cp_ttl", "cp_sharing"}

(* what a MapCacheConnectionPool* directive stores: atoi of its argument, *)
(* the flag of MapCacheConnectionPoolSharing                              *)
CpArgs(o) == IF o = "cp_sharing" THEN {0, 1} ELSE {3, 12}

mod_mapcache_create_server_conf ==
  [aliases |-> <<>>,
   val |-> [o \in CpOptions |->
              CASE o = "cp_sharing" -> 0
                [] o = "cp_min" -> 1
                [] o = "cp_smax" -> 5
                [] o = "cp_hmax" -> 200
                [] o = "cp_ttl" -> 60],
   is_set |-> [o \in CpOptions |-> FALSE]]

(* apr_pcalloc: every field is zero *)
ZeroedServerCfg ==
  [aliases |-> <<>>,
   val |-> [o \in CpOptions |-> 0],
   is_set |-> [o \in CpOptions |-> FALSE]]

(* mapcache_set_cp_min, _smax, _hmax, _ttl and _sharing *)
mapcache_set_cp(sconfig, o, value) ==
  [sconfig EXCEPT !.is_set[o] = TRUE, !.val[o] = value]

(* cfg is the zeroed allocation of line 625: the values and is-set bits   *)
(* the virtual host did not set are taken from cfg itself                 *)
mod_mapcache_merge_server_conf(base, vhost) ==
  LET cfg == ZeroedServerCfg
  IN [aliases |-> vhost.aliases \o base.aliases,
      val |-> [o \in CpOptions |->
                 IF vhost.is_set[o] THEN vhost.val[o] ELSE cfg.val[o]],
      is_set |-> [o \in CpOptions |-> vhost.is_set[o] \/ cfg.is_set[o]]]

MgInit ==
  /\ mgCfg = [s \in {"base", "vhost"} |-> mod_mapcache_create_server_conf]
  /\ mgMerged = <<>>

MgIdle ==
  /\ mgCfg = [s \in {"base", "vhost"} |-> ZeroedServerCfg]
  /\ mgMerged = <<>>

(* a MapCacheConnectionPool* directive of the base server or inside the   *)
(* <VirtualHost> section                                                  *)
SetCp ==
  /\ mgMerged = <<>>
  /\ \E s \in {"base", "vhost"}, o \in CpOptions :
       /\ ~mgCfg[s].is_set[o]
       /\ \E value \in CpArgs(o) :
            mgCfg' = [mgCfg EXCEPT ![s] = mapcache_set_cp(@, o, value)]
  /\ UNCHANGED mgMerged
  /\ UNCHANGED besidesMg

MergeServerConf ==
  /\ mgMerged = <<>>
  /\ mgMerged' =
       <<mod_mapcache_merge_server_conf(mgCfg["base"], mgCfg["vhost"])>>
  /\ UNCHANGED mgCfg
  /\ UNCHANGED besidesMg

MgNext == SetCp \/ MergeServerConf

(* ------------------------- per-worker initialization ------------------- *)
(* alias entries are numbered in the order of their MapCacheAlias         *)
(* directives; a config lists the numbers of the entries its array points *)
(* to. Pools are numbered by the creation call that made them: n is the   *)
(* pool of call n, -n the object a failed call n left behind, 0 is NULL   *)
NoPool == 0

(* the loop over the aliases of one server from position i (1-based), cp  *)
(* being the pool carried over from the aliases before                    *)
RECURSIVE BindAliases(_, _, _, _, _, _)
BindAliases(cfg, i, cp, st, failAt, broken) ==
  IF i > Len(cfg.aliases) THEN st
  ELSE LET a == cfg.aliases[i]
       IN IF cp = NoPool
          THEN LET n == st.created + 1
                   made == IF n # failAt THEN n
                           ELSE IF broken THEN 0 - n ELSE NoPool
               IN BindAliases(cfg, i + 1,
                    IF cfg.val["cp_sharing"] = 0 THEN NoPool ELSE made,
                    [cp |-> [st.cp EXCEPT ![a] = made], created |-> n],
                    failAt, broken)
          ELSE BindAliases(cfg, i + 1, cp, [st EXCEPT !.cp[a] = cp],
                           failAt, broken)

(* the loop over the server list from position s *)
RECURSIVE mod_mapcache_child_init(_, _, _, _, _)
mod_mapcache_child_init(servers, s, st, failAt, broken) ==
  IF s > Len(servers) THEN st
  ELSE mod_mapcache_child_init(servers, s + 1,
         BindAliases(servers[s], 1, NoPool, st, failAt, broken),
         failAt, broken)

(* a base server with nb aliases and, when vhost holds, one virtual host  *)
(* with nv aliases of its own, merged over the base; db and dv are their  *)
(* MapCacheConnectionPoolSharing directives                               *)
ServerList(db, nb, vhost, dv, nv) ==
  LET Created(d, first, count) ==
        [(IF d = "none" THEN mod_mapcache_create_server_conf
          ELSE mapcache_set_cp(mod_mapcache_create_server_conf, "cp_sharing",
                               IF d = "on" THEN 1 ELSE 0))
           EXCEPT !.aliases = [i \in 1..count |-> first + i - 1]]
      base == Created(db, 1, nb)
      own == Created(dv, nb + 1, nv)
  IN IF vhost THEN <<base, mod_mapcache_merge_server_conf(base, own)>>
     ELSE <<base>>

CiInit ==
  /\ \E db \in {"none", "on", "off"}, dv \in {"none", "on", "off"},
        nb \in 0..NAliases, nv \in 0..NAliases, vhost \in BOOLEAN :
       /\ (~vhost => dv = "none" /\ nv = 0)
       /\ ciServers = ServerList(db, nb, vhost, dv, nv)
  /\ ciFailAt \in 0..(NAliases + 1)
  /\ ciBroken \in BOOLEAN
  /\ (ciFailAt = 0 => ~ciBroken)
  /\ ciCp = [a \in 1..(2 * NAliases) |-> NoPool]
  /\ ciDone = FALSE

CiIdle ==
  /\ ciServers = <<>>
  /\ ciFailAt = 0
  /\ ciBroken = FALSE
  /\ ciCp = <<>>
  /\ ciDone = FALSE

ChildInit ==
  /\ ~ciDone
  /\ ciDone' = TRUE
  /\ ciCp' = mod_mapcache_child_init(ciServers, 1,
               [cp |-> ciCp, created |-> 0], ciFailAt, ciBroken).cp
  /\ UNCHANGED <<ciServers, ciFailAt, ciBroken>>
  /\ UNCHANGED besidesCi

CiNext == ChildInit

(* ------------------------------ proxy requests ------------------------- *)
HTTP_REQUEST_ENTITY_TOO_LARGE == 413

ClientIp == "client_ip"
ServerHostname == "server_hostname"

(* a header value is the list of the items its text separates by ", " *)
NoHeaders ==
  [h \in {"Content-Type", "X-Forwarded-For", "X-Forwarded-Host",
          "X-Forwarded-Server"} |-> <<>>]

(* the do-while loop of read_post_body: remaining is what the client has  *)
(* still to send, kept the bytes moved to bb; one call of ap_get_brigade  *)
(* hands over at most bytes bytes in one bucket, and the EOS bucket once  *)
(* the body is exhausted                                                  *)
RECURSIVE ReadBrigades(_, _, _, _, _, _, _, _)
ReadBrigades(remaining, post_len, kept, bytes, max, chunk, apart, eos) ==
  LET n == CHOOSE k \in {chunk, bytes, remaining} :
             \A j \in {chunk, bytes, remaining} : k <= j
      len == post_len + n
      moved == IF len <= max THEN kept + n ELSE kept
      sawEos == remaining - n = 0 /\ (n = 0 \/ ~apart)
  IN IF sawEos \/ eos # 0
     THEN [post_len |-> len, kept |-> moved]
     ELSE ReadBrigades(remaining - n, len, moved, bytes, max, chunk, apart, eos)

(* clen: whether a Content-Length header announces the body length *)
read_post_body(clen, body, max, chunk, apart, eos, fails) ==
  IF clen /\ body >= max
  THEN [err |-> HTTP_REQUEST_ENTITY_TOO_LARGE, post_len |-> 0]
  ELSE IF fails THEN [err |-> 500, post_len |-> 0]
  ELSE LET bytes == IF clen THEN body ELSE max
           read == ReadBrigades(body, 0, 0, bytes, max, chunk, apart, eos)
       IN IF read.post_len > max
          THEN [err |-> HTTP_REQUEST_ENTITY_TOO_LARGE,
                post_len |-> read.post_len]
          ELSE [err |-> 0, post_len |-> read.kept]

(* the headers lines 455-485 store in req_proxy->headers *)
ForwardedHeaders(in) ==
  [NoHeaders EXCEPT
     !["Content-Type"] = <<"content_type">>,
     !["X-Forwarded-For"] = in.xff \o <<ClientIp>>,
     !["X-Forwarded-Host"] = IF in.host # <<>> THEN in.xfh \o in.host ELSE <<>>,
     !["X-Forwarded-Server"] = in.xfs \o <<ServerHostname>>]

(* the MAPCACHE_REQUEST_PROXY branch of mod_mapcache_request_handler *)
RequestProxy(method, in, body, max, chunk, apart, eos, fails) ==
  IF method = "POST"
  THEN LET read == read_post_body(in.clen, body, max, chunk, apart, eos, fails)
       IN IF read.err # 0
          THEN [err |-> read.err, post_len |-> read.post_len,
                headers |-> NoHeaders, forwarded |-> FALSE]
          ELSE [err |-> 0, post_len |-> read.post_len,
                headers |-> ForwardedHeaders(in), forwarded |-> TRUE]
  ELSE [err |-> 0, post_len |-> 0, headers |-> NoHeaders, forwarded |-> TRUE]

PxInit ==
  /\ pxMethod \in {"GET", "POST"}
  /\ pxIn \in [xff : {<<>>, <<"in_for">>}, host : {<<>>, <<"in_host">>},
               xfh : {<<>>, <<"in_fhost">>}, xfs : {<<>>, <<"in_server">>},
               clen : BOOLEAN]
  /\ pxBody \in IF pxMethod = "POST" THEN 0..MaxBody ELSE {0}
  /\ pxMax \in {1, MaxBody - 1}
  /\ pxChunk \in {1, MaxBody}
  /\ pxEosApart \in BOOLEAN
  /\ pxEos \in {0, 1}
  /\ pxReadFails \in BOOLEAN
  /\ (pxMethod = "GET" =>
        ~pxIn.clen /\ pxChunk = 1 /\ ~pxEosApart /\ pxEos = 0 /\ ~pxReadFails)
  /\ pxHeaders = NoHeaders
  /\ pxPostLen = 0
  /\ pxErr = 0
  /\ pxForwarded = FALSE
  /\ pxDone = FALSE

PxIdle ==
  /\ pxMethod = "GET"
  /\ pxIn = [xff |-> <<>>, host |-> <<>>, xfh |-> <<>>, xfs |-> <<>>,
             clen |-> FALSE]
  /\ pxBody = 0
  /\ pxMax = 1
  /\ pxChunk = 1
  /\ pxEosApart = FALSE
  /\ pxEos = 0
  /\ pxReadFails = FALSE
  /\ pxHeaders = NoHeaders
  /\ pxPostLen = 0
  /\ pxErr = 0
  /\ pxForwarded = FALSE
  /\ pxDone = FALSE

HandleProxyRequest ==
  /\ ~pxDone
  /\ pxDone' = TRUE
  /\ \E r \in {RequestProxy(pxMethod, pxIn, pxBody, pxMax, pxChunk,
                            pxEosApart, pxEos, pxReadFails)} :
       /\ pxHeaders' = r.headers
       /\ pxPostLen' = r.post_len
       /\ pxErr' = r.err
       /\ pxForwarded' = r.forwarded
  /\ UNCHANGED <<pxMethod, pxIn, pxBody, pxMax, pxChunk, pxEosApart, pxEos,
                 pxReadFails>>
  /\ UNCHANGED besidesPx

PxNext == HandleProxyRequest

(* ------------------------------ Riak backend --------------------------- *)
(* cache_riak2.c holds two backends: the one for Riak 2 (lines 1-734,     *)
(* with detect_blank) and the older one (lines 736-1301)                  *)
RiakVariants == {"riak2", "riak"}

Retries == 3

Payloads == {<<>>, <<"p">>}

(* the four bytes of the first pixel of an image *)
Pixels == {<<"0", "0", "0", "0">>, <<"f", "f", "f", "f">>}

(* raw_image of the tile given to set: absent, of one color, or not *)
RawImages == {"none", "uniform", "varied"}

(* the error the pool leaves in the context when no connection can be     *)
(* borrowed; 0 when the borrow succeeds                                   *)
BorrowErrors == {0, 500, 503}

(* the outcomes of successive riack_reconnect calls: the server is back,  *)
(* stays away, comes back at the second call, or goes away at the last    *)
ReconnectOutcomes ==
  {[j \in 1..(Retries + 1) |-> TRUE], [j \in 1..(Retries + 1) |-> FALSE],
   [j \in 1..(Retries + 1) |-> j > 1], [j \in 1..(Retries + 1) |-> j <= Retries]}

(* the for loop around riack_reconnect from call j on *)
RECURSIVE Reconnects(_, _, _)
Reconnects(j, left, recOk) ==
  IF ~recOk[j] /\ left > 0 THEN Reconnects(j + 1, left - 1, recOk)
  ELSE [j |-> j, retries |-> left, connect_error |-> ~recOk[j]]

(* a retry loop that tries once more than the code *)
RECURSIVE RiakRetryOnceMore(_, _, _, _, _, _)
RiakRetryOnceMore(k, j, left, connect_error, opOk, recOk) ==
  IF opOk[k]
  THEN [error |-> FALSE, connect_error |-> connect_error,
        attempts |-> k, reconnects |-> j - 1]
  ELSE LET r == Reconnects(j, left, recOk)
       IN IF r.retries - 1 >= -1
          THEN RiakRetryOnceMore(k + 1, r.j + 1, r.retries - 1,
                                 r.connect_error, opOk, recOk)
          ELSE [error |-> TRUE, connect_error |-> r.connect_error,
                attempts |-> k, reconnects |-> r.j]

(* the do-while loop around the Riak call from attempt k on; opOk[k] is   *)
(* the outcome of attempt k                                               *)
RECURSIVE RiakRetry(_, _, _, _, _, _)
RiakRetry(k, j, left, connect_error, opOk, recOk) ==
  IF opOk[k]
  THEN [error |-> FALSE, connect_error |-> connect_error,
        attempts |-> k, reconnects |-> j - 1]
  ELSE LET r == Reconnects(j, left, recOk)
       IN IF r.retries - 1 >= 0
          THEN RiakRetry(k + 1, r.j + 1, r.retries - 1, r.connect_error,
                         opOk, recOk)
          ELSE [error |-> TRUE, connect_error |-> r.connect_error,
                attempts |-> k, reconnects |-> r.j]

(* the outcomes of the Riak calls when attempt first is the first to      *)
(* succeed                                                                *)
OkFrom(first) == [k \in 1..(Retries + 2) |-> k >= first]

(* a pool that gets no connection back from a call that succeeded *)
PoolCallNoneOnSuccess(variant, op, loop) ==
  IF loop.error THEN <<"invalidate">> ELSE <<>>

(* the call to the pool after the retry loop *)
PoolCall(variant, op, loop) ==
  IF variant = "riak" /\ op = "exists"
  THEN IF loop.error THEN <<"invalidate">> ELSE <<"release">>
  ELSE IF variant = "riak" /\ op = "delete" THEN <<"release">>
  ELSE IF loop.connect_error THEN <<"invalidate">> ELSE <<"release">>

RiakOut(r, e, calls, encoded_data, m) ==
  [ret |-> r, err |-> e, pool |-> calls, data |-> encoded_data, mtime |-> m]

IsSentinel(obj) ==
  /\ Len(obj.data) = 5
  /\ obj.data[1] = "#"
  /\ obj.content_type = "image/mapcache-rgba"

(* mapcache_empty_png_decode: the encoded blank tile of the grid's tile   *)
(* size in the color of the sentinel                                      *)
EmptyPng(data) == <<"empty_png">> \o SubSeq(data, 2, 5)

_mapcache_cache_riak_has_tile(variant, store, borrow, first, recOk) ==
  IF borrow # 0 THEN RiakOut("MAPCACHE_FALSE", borrow, <<"borrow_failed">>, <<>>,
                            FALSE)
  ELSE LET loop == RiakRetry(1, 1, Retries, FALSE, OkFrom(first), recOk)
       IN IF loop.error
          THEN RiakOut("MAPCACHE_FALSE", 500,
                       <<"borrow">> \o PoolCall(variant, "exists", loop),
                       <<>>, FALSE)
          ELSE RiakOut(IF store = <<>> \/ Len(store[1].data) = 0
                       THEN "MAPCACHE_FALSE" ELSE "MAPCACHE_TRUE",
                       0, <<"borrow", "release">>, <<>>, FALSE)

(* a get that takes an empty object for a tile *)
GetEmptyIsSuccess(variant, store, borrow, first, recOk) ==
  IF borrow # 0 THEN RiakOut("MAPCACHE_FAILURE", borrow, <<"borrow_failed">>,
                            <<>>, FALSE)
  ELSE LET loop == RiakRetry(1, 1, Retries, FALSE, OkFrom(first), recOk)
       IN IF loop.error
          THEN RiakOut("MAPCACHE_FAILURE", 500,
                       <<"borrow">> \o PoolCall(variant, "get", loop),
                       <<>>, FALSE)
          ELSE IF store = <<>>
          THEN RiakOut("MAPCACHE_CACHE_MISS", 0, <<"borrow", "release">>,
                       <<>>, FALSE)
          ELSE RiakOut("MAPCACHE_SUCCESS", 0, <<"borrow", "release">>,
                       store[1].data, store[1].last_modified_present)

(* a get that never expands the sentinel *)
GetCopiesSentinel(variant, store, borrow, first, recOk) ==
  IF borrow # 0 THEN RiakOut("MAPCACHE_FAILURE", borrow, <<"borrow_failed">>,
                            <<>>, FALSE)
  ELSE LET loop == RiakRetry(1, 1, Retries, FALSE, OkFrom(first), recOk)
       IN IF loop.error
          THEN RiakOut("MAPCACHE_FAILURE", 500,
                       <<"borrow">> \o PoolCall(variant, "get", loop),
                       <<>>, FALSE)
          ELSE IF store = <<>> \/ Len(store[1].data) = 0
          THEN RiakOut("MAPCACHE_CACHE_MISS", 0, <<"borrow", "release">>,
                       <<>>, FALSE)
          ELSE RiakOut("MAPCACHE_SUCCESS", 0, <<"borrow", "release">>,
                       store[1].data, store[1].last_modified_present)

_mapcache_cache_riak_get(variant, store, borrow, first, recOk) ==
  IF borrow # 0 THEN RiakOut("MAPCACHE_FAILURE", borrow, <<"borrow_failed">>,
                            <<>>, FALSE)
  ELSE LET loop == RiakRetry(1, 1, Retries, FALSE, OkFrom(first), recOk)
       IN IF loop.error
          THEN RiakOut("MAPCACHE_FAILURE", 500,
                       <<"borrow">> \o PoolCall(variant, "get", loop),
                       <<>>, FALSE)
          ELSE IF store = <<>> \/ Len(store[1].data) = 0
          THEN RiakOut("MAPCACHE_CACHE_MISS", 0, <<"borrow", "release">>,
                       <<>>, FALSE)
          ELSE RiakOut("MAPCACHE_SUCCESS", 0, <<"borrow", "release">>,
                       IF variant = "riak2" /\ IsSentinel(store[1])
                       THEN EmptyPng(store[1].data) ELSE store[1].data,
                       store[1].last_modified_present)

(* a blank-detection mapping that drops the color of the tile *)
ContentWithoutColor(variant, detect, tile, decoded) ==
  LET raw == IF tile.raw_image = "none" THEN decoded ELSE tile.raw_image
  IN IF variant = "riak2" /\ detect /\ raw = "uniform"
     THEN [data |-> <<"#", "0", "0", "0", "0">>,
           content_type |-> "image/mapcache-rgba"]
     ELSE [data |-> tile.encoded_data, content_type |-> "image/png"]

(* what set puts under the key: the sentinel for a tile of one color when *)
(* blank detection is on, the encoded bytes otherwise. decoded is what    *)
(* mapcache_imageio_decode makes of the payload when the tile has no      *)
(* raw_image: "fail", "uniform" or "varied"; tile.pixel is the first      *)
(* pixel of the raw image, given or decoded                               *)
RiakContent(variant, detect, tile, decoded) ==
  LET raw == IF tile.raw_image = "none" THEN decoded ELSE tile.raw_image
  IN IF variant = "riak2" /\ detect /\ raw = "uniform"
     THEN [data |-> <<"#">> \o tile.pixel, content_type |-> "image/mapcache-rgba"]
     ELSE [data |-> tile.encoded_data, content_type |-> "image/png"]

(* the result holds the store after the call next to what RiakOut holds;  *)
(* mtime tells whether Riak keeps a modification time with the object, f  *)
(* is the outcome of the borrow, of the Riak calls and of the reconnects  *)
_mapcache_cache_riak_set(variant, detect, tile, decoded, mtime, store, f) ==
  IF variant = "riak2" /\ detect /\ tile.raw_image = "none" /\ decoded = "fail"
  THEN [store |-> store, out |-> RiakOut("void", 500, <<>>, <<>>, FALSE)]
  ELSE IF f.borrow # 0
  THEN [store |-> store,
        out |-> RiakOut("void", f.borrow, <<"borrow_failed">>, <<>>, FALSE)]
  ELSE LET loop ==
             RiakRetry(1, 1, Retries, FALSE, OkFrom(f.first), f.recOk)
           content == RiakContent(variant, detect, tile, decoded)
       IN IF loop.error
          THEN [store |-> store,
                out |-> RiakOut("void", 500,
                                <<"borrow">> \o PoolCall(variant, "set", loop),
                                <<>>, FALSE)]
          ELSE [store |-> <<[data |-> content.data,
                             content_type |-> content.content_type,
                             last_modified_present |-> mtime]>>,
                out |-> RiakOut("void", 0,
                                <<"borrow">> \o PoolCall(variant, "set", loop),
                                <<>>, FALSE)]

_mapcache_cache_riak_delete(variant, store, borrow, first, recOk) ==
  IF borrow # 0
  THEN [store |-> store,
        out |-> RiakOut("void", borrow, <<"borrow_failed">>, <<>>, FALSE)]
  ELSE LET loop == RiakRetry(1, 1, Retries, FALSE, OkFrom(first), recOk)
       IN [store |-> IF loop.error THEN store ELSE <<>>,
           out |-> RiakOut("void", IF loop.error THEN 500 ELSE 0,
                           <<"borrow">> \o PoolCall(variant, "delete", loop),
                           <<>>, FALSE)]

NoTile ==
  [encoded_data |-> <<>>, raw_image |-> "none", pixel |-> <<"0", "0", "0", "0">>]

RiakIn(tile, borrow, first, recOk) ==
  [tile |-> tile, borrow |-> borrow, first |-> first, recOk |-> recOk]

(* the inputs of one operation: when the borrow fails there is no Riak    *)
(* call, and when the first call succeeds there is no reconnect           *)
RiakFaults ==
  {f \in [borrow : BorrowErrors, first : {1, 2, Retries + 2},
          recOk : ReconnectOutcomes] :
     /\ f.borrow # 0 => f.first = 1
     /\ f.first = 1 => \A j \in 1..(Retries + 1) : f.recOk[j]}

RkInit ==
  /\ rkVariant \in RiakVariants
  /\ rkDetect \in IF rkVariant = "riak2" THEN BOOLEAN ELSE {FALSE}
  /\ rkStore = <<>>
  /\ rkOp = "none"
  /\ rkIn = RiakIn(NoTile, 0, 1, [j \in 1..(Retries + 1) |-> TRUE])
  /\ rkOut = RiakOut("void", 0, <<>>, <<>>, FALSE)
  /\ rkLastSet = <<>>

RkIdle ==
  /\ rkVariant = "riak"
  /\ rkDetect = FALSE
  /\ rkStore = <<>>
  /\ rkOp = "none"
  /\ rkIn = RiakIn(NoTile, 0, 1, [j \in 1..(Retries + 1) |-> TRUE])
  /\ rkOut = RiakOut("void", 0, <<>>, <<>>, FALSE)
  /\ rkLastSet = <<>>

RiakHasTile ==
  /\ rkOp' = "exists"
  /\ \E f \in RiakFaults :
       /\ rkIn' = RiakIn(NoTile, f.borrow, f.first, f.recOk)
       /\ rkOut' = _mapcache_cache_riak_has_tile(rkVariant, rkStore, f.borrow,
                                                 f.first, f.recOk)
  /\ UNCHANGED <<rkVariant, rkDetect, rkStore, rkLastSet>>
  /\ UNCHANGED besidesRk

RiakGet ==
  /\ rkOp' = "get"
  /\ \E f \in RiakFaults :
       /\ rkIn' = RiakIn(NoTile, f.borrow, f.first, f.recOk)
       /\ rkOut' = _mapcache_cache_riak_get(rkVariant, rkStore, f.borrow,
                                            f.first, f.recOk)
  /\ UNCHANGED <<rkVariant, rkDetect, rkStore, rkLastSet>>
  /\ UNCHANGED besidesRk

RiakSet ==
  /\ rkOp' = "set"
  /\ \E f \in RiakFaults, data \in Payloads, raw \in RawImages,
        decoded \in {"fail", "uniform", "varied"}, pixel \in Pixels,
        mtime \in BOOLEAN :
       /\ raw # "none" => decoded = raw
       /\ (raw = "none" /\ data = <<>>) => decoded = "fail"
       /\ decoded # "uniform" => pixel = NoTile.pixel
       /\ \E tile \in {[encoded_data |-> data, raw_image |-> raw,
                         pixel |-> pixel]} :
          \E r \in {_mapcache_cache_riak_set(rkVariant, rkDetect, tile,
                                              decoded, mtime, rkStore, f)} :
            /\ rkIn' = RiakIn(tile, f.borrow, f.first, f.recOk)
            /\ rkOut' = r.out
            /\ rkStore' = r.store
            /\ rkLastSet' =
                 IF r.out.err # 0 THEN <<>>
                 ELSE IF rkVariant = "riak2" /\ rkDetect /\ raw = "none"
                 THEN <<[tile EXCEPT !.raw_image = decoded]>>
                 ELSE <<tile>>
  /\ UNCHANGED <<rkVariant, rkDetect>>
  /\ UNCHANGED besidesRk

RiakDelete ==
  /\ rkOp' = "delete"
  /\ \E f \in RiakFaults :
       \E r \in {_mapcache_cache_riak_delete(rkVariant, rkStore, f.borrow,
                                             f.first, f.recOk)} :
         /\ rkIn' = RiakIn(NoTile, f.borrow, f.first, f.recOk)
         /\ rkOut' = r.out
         /\ rkStore' = r.store
  /\ rkLastSet' = <<>>
  /\ UNCHANGED <<rkVariant, rkDetect>>
  /\ UNCHANGED besidesRk

RkNext == RiakHasTile \/ RiakGet \/ RiakSet \/ RiakDelete

(* ---------------------------- Riak retry loop -------------------------- *)
(* the retry loop of exists, get, set and delete under every sequence of  *)
(* outcomes; the sequences are longer than the loop can use               *)
RlInit ==
  /\ rlOpOk \in [1..(Retries + 2) -> BOOLEAN]
  /\ rlRecOk \in [1..(Retries + 2) -> BOOLEAN]
  /\ rlLoop = <<>>

RlIdle ==
  /\ rlOpOk = [k \in 1..(Retries + 2) |-> TRUE]
  /\ rlRecOk = [j \in 1..(Retries + 2) |-> TRUE]
  /\ rlLoop = <<>>

RiakRetryLoop ==
  /\ rlLoop = <<>>
  /\ rlLoop' = <<RiakRetry(1, 1, Retries, FALSE, rlOpOk, rlRecOk)>>
  /\ UNCHANGED <<rlOpOk, rlRecOk>>
  /\ UNCHANGED besidesRl

RlNext == RiakRetryLoop

(* ---------------------------- HTTP response ---------------------------- *)
(* apr_time_t counts microseconds; an HTTP date has whole seconds *)
apr_time_sec(t) == t \div 1000000

Mtimes == {0} \cup {s * 1000000 + u : s \in 1..MaxSec, u \in {0, 500000}}

(* the date string of a time, and the time of a date string, in seconds *)
apr_rfc822_date(t) == <<"date", apr_time_sec(t)>>

apr_date_parse_http(d) == d[2]

(* the tables a response can carry: entries <<key, value>> in order *)
ResponseHeaders == {<<>>, << <<"Content-Type", "image/png">> >>, << <<"content-type", "image/png">>, <<"Cache-Control", "max-age=1">> >>}

IsContentType(key) == key \in {"Content-Type", "content-type"}

(* apr_table_set, apr_table_setn: the entry replaces those of the same key *)
apr_table_set(t, key, val) == {e \in t : e[1] # key} \cup {<<key, val>>}

(* ap_meets_conditions of the server for a GET that carries no other      *)
(* conditional header than If-Modified-Since: 304 when the date is not    *)
(* before the resource's mtime and not after the request's time           *)
ap_meets_conditions(r, req) ==
  IF /\ req.ims # <<>>
     /\ apr_date_parse_http(req.ims[1]) >= apr_time_sec(r.mtime)
     /\ apr_date_parse_http(req.ims[1]) <= req.request_time
    THEN 304 ELSE 0

(* ap_update_mtime: the mtime of the request is the latest one given *)
ap_update_mtime(r, mtime) == [r EXCEPT !.mtime = IF mtime > @ THEN mtime ELSE @]

(* lines 333-342: Content-Type sets the content type, the rest is copied *)
RECURSIVE CopyHeaders(_, _, _)
CopyHeaders(r, elts, i) ==
  IF i > Len(elts) THEN r
  ELSE CopyHeaders(
         IF IsContentType(elts[i][1])
           THEN [r EXCEPT !.content_type = elts[i][2]]
           ELSE [r EXCEPT !.headers_out = apr_table_set(@, elts[i][1], elts[i][2])],
         elts, i + 1)

(* lines 317-352 *)
write_http_response(r0, req, response) ==
  LET r1 == ap_update_mtime(r0, response.mtime)
      r2 == [r1 EXCEPT !.headers_out = apr_table_set(@, "Last-Modified", apr_rfc822_date(response.mtime))]
  IN IF response.mtime # 0 /\ ap_meets_conditions(r1, req) # 0
       THEN [rc |-> ap_meets_conditions(r1, req), r |-> r1]
       ELSE LET r3 == CopyHeaders(IF response.mtime # 0 THEN r2 ELSE r0, response.headers, 1)
                r4 == IF response.data # 0
                        THEN [r3 EXCEPT !.content_length = response.data, !.written = response.data]
                        ELSE r3
            IN [rc |-> 0, r |-> [r4 EXCEPT !.status = response.code]]

(* the request_rec when the handler starts writing *)
NewRequestRec == [mtime |-> 0, headers_out |-> {}, content_type |-> "", content_length |-> 0, written |-> 0, status |-> 200]

WrInit ==
  /\ wrReq \in [ims : {<<>>} \cup {<<apr_rfc822_date(s * 1000000)>> : s \in 1..MaxSec}, request_time : 1..MaxSec]
  /\ wrResp \in [mtime : Mtimes, headers : ResponseHeaders, data : 0..MaxBody, code : {200, 404}]
  /\ wrOut = <<>>

WrIdle ==
  /\ wrReq = [ims |-> <<>>, request_time |-> 1]
  /\ wrResp = [mtime |-> 0, headers |-> <<>>, data |-> 0, code |-> 200]
  /\ wrOut = <<>>

WriteHttpResponse ==
  /\ wrOut = <<>>
  /\ wrOut' = <<write_http_response(NewRequestRec, wrReq, wrResp)>>
  /\ UNCHANGED <<wrReq, wrResp>>
  /\ UNCHANGED besidesWr

WrNext == WriteHttpResponse

(* ------------------------ get-capabilities base URL -------------------- *)
Hosts == {<<"s">>, <<"b">>}

(* ap_construct_url: scheme, "://", host name, uri *)
ap_construct_url(host, uri) == <<"h", ":", "/", "/">> \o host \o uri

OccursAt(s, sub, p) == p + Len(sub) - 1 <= Len(s) /\ SubSeq(s, p, p + Len(sub) - 1) = sub

(* strstr: the 1-based position of the first occurrence, 0 when none *)
strstr(s, sub) ==
  IF \E p \in 1..(Len(s) + 1) : OccursAt(s, sub, p)
    THEN CHOOSE p \in 1..(Len(s) + 1) : OccursAt(s, sub, p) /\ \A q \in 1..(p - 1) : ~OccursAt(s, sub, q)
    ELSE 0

(* line 432: while the byte before end is '/', end-- *)
RECURSIVE BackOverSlashes(_, _)
BackOverSlashes(url, end) ==
  IF end > 1 /\ url[end - 1] = "/" THEN BackOverSlashes(url, end - 1) ELSE end

(* lines 416-439: the url of the request without its path_info *)
CapabilitiesUrl(host, uri, path_info) ==
  LET url == ap_construct_url(host, uri)
  IN IF path_info # <<>> /\ path_info # <<"/">>
       THEN LET end == strstr(url, path_info)
            IN IF end = 0 THEN url
               ELSE IF url[end] = "/"
                    THEN SubSeq(url, 1, BackOverSlashes(url, end))
                    ELSE SubSeq(url, 1, end - 1)
       ELSE url

(* a path_info names a service: it holds a byte that is no '/' *)
NamesService(path_info) == \E i \in 1..Len(path_info) : path_info[i] # "/"

CuInit ==
  /\ cuHost \in Hosts
  /\ cuUri \in SeqsUpTo(UriChars, MaxLen + 2)
  /\ cuAlias \in SeqsUpTo(UriChars, MaxLen + 1) \ {<<>>}
  /\ mapcache_alias_matches(cuUri, cuAlias, "NUL") > 0
  /\ cuPathInfo = SubSeq(cuUri, mapcache_alias_matches(cuUri, cuAlias, "NUL") + 1, Len(cuUri))
  /\ NamesService(cuPathInfo)
  /\ cuUrl = <<>>

CuIdle ==
  /\ cuHost = <<"s">>
  /\ cuUri = <<>>
  /\ cuAlias = <<>>
  /\ cuPathInfo = <<>>
  /\ cuUrl = <<>>

(* the handler's branch for a get-capabilities request *)
GetCapabilitiesUrl ==
  /\ cuUrl = <<>>
  /\ cuUrl' = <<CapabilitiesUrl(cuHost, cuUri, cuPathInfo)>>
  /\ UNCHANGED <<cuHost, cuUri, cuAlias, cuPathInfo>>
  /\ UNCHANGED besidesCu

CuNext == GetCapabilitiesUrl

(* ------------------- alias entry, from fixups to handler --------------- *)
(* line 627: the virtual host's list is its own entries, then the base     *)
(* server's; each entry carries its own configuration and connection pool  *)
MergedAliases(vhost, base) ==
  [i \in 1..Len(vhost) |-> [endpoint |-> vhost[i], cfg |-> <<"vhost", i>>, cp |-> <<"vhost", i>>]]
  \o [i \in 1..Len(base) |-> [endpoint |-> base[i], cfg |-> <<"base", i>>, cp |-> <<"base", i>>]]

EndpointsOf(entries) == [i \in 1..Len(entries) |-> entries[i].endpoint]

(* the C string of an endpoint, as the note of the request holds it *)
RECURSIVE AsString(_)
AsString(e) ==
  IF e = <<>> THEN "" ELSE e[1] \o AsString(Tail(e))

NoteOf(fix) == IF fix.note = <<>> THEN "NONE" ELSE AsString(fix.note[1])

AeInit ==
  /\ aeUri \in SeqsUpTo(UriChars, MaxLen + 2)
  /\ aeVhost \in SeqsUpTo(FxEndpoints, NAliases)
  /\ aeBase \in SeqsUpTo(FxEndpoints, NAliases - Len(aeVhost))
  /\ aeFix = <<>>
  /\ aeCtx = <<>>

AeIdle ==
  /\ aeUri = <<>>
  /\ aeVhost = <<>>
  /\ aeBase = <<>>
  /\ aeFix = <<>>
  /\ aeCtx = <<>>

(* the fixups hook on a request no other module has claimed *)
AeFixups ==
  /\ aeFix = <<>>
  /\ LET entries == MergedAliases(aeVhost, aeBase)
     IN aeFix' = <<mapcache_hook_fixups("NULL", [present |-> TRUE, aliases |-> EndpointsOf(entries)], aeUri)>>
  /\ UNCHANGED <<aeUri, aeVhost, aeBase, aeCtx>>
  /\ UNCHANGED besidesAe

(* the handler on the request the fixups hook has seen: lines 220-232 set  *)
(* the context's config and connection_pool from the entry found           *)
AeHandler ==
  /\ aeFix # <<>>
  /\ aeCtx = <<>>
  /\ \E method \in {"GET", "POST"} :
       LET entries == MergedAliases(aeVhost, aeBase)
           names == [i \in 1..Len(entries) |-> AsString(entries[i].endpoint)]
           h == mod_mapcache_request_handler(aeFix[1].handler, method, [present |-> TRUE, aliases |-> names], NoteOf(aeFix[1]))
       IN aeCtx' = <<[ret |-> h.ret,
                      config |-> IF h.ctx = NullCtx THEN <<>> ELSE entries[h.ctx + 1].cfg,
                      connection_pool |-> IF h.ctx = NullCtx THEN <<>> ELSE entries[h.ctx + 1].cp]>>
  /\ UNCHANGED <<aeUri, aeVhost, aeBase, aeFix>>
  /\ UNCHANGED besidesAe

AeNext == AeFixups \/ AeHandler

(* ------------------------------ specifications ------------------------- *)
LockIdle ==
  /\ files = {}
  /\ cache = [r \in Resources |-> 0]
  /\ pc = [w \in Workers |-> "done"]
  /\ res = [w \in Workers |-> <<"l", "/", "1">>]
  /\ lock = [w \in Workers |-> <<>>]
  /\ rv = [w \in Workers |-> "NONE"]
  /\ ret = [w \in Workers |-> "NONE"]
  /\ waited = [w \in Workers |-> 0]
  /\ sleepLeft = [w \in Workers |-> 0]
  /\ retries = [w \in Workers |-> 0]
  /\ resp = [w \in Workers |-> 0]
  /\ ctxErr = [w \in Workers |-> 0]
  /\ hist = HistInit

LockNext ==
  \/ \E w \in Workers : TileGet(w)
  \/ \E w \in Workers : LockOrWaitAquire(w)
  \/ \E w \in Workers : LockOrWaitCheck(w)
  \/ \E w \in Workers : LockOrWaitPing(w)
  \/ \E w \in Workers : Render(w)
  \/ \E w \in Workers : TileSet(w)
  \/ \E w \in Workers : Unlock(w)
  \/ \E w \in Workers : ReGet(w)
  \/ Tick

(* the tile pipeline over the disk locker *)
Init == LockInit /\ CanonIdle /\ MTIdle /\ CfgIdle /\ FbIdle /\ McIdle /\ RqIdle
  /\ AmIdle /\ FxIdle /\ MgIdle /\ CiIdle /\ PxIdle /\ RkIdle /\ RlIdle
  /\ WrIdle /\ CuIdle /\ AeIdle
Next == LockNext
Spec == Init /\ [][Next]_vars

(* the two canonicalizations applied to bounded resource strings *)
CanonSpecInit == CanonInit /\ LockIdle /\ MTIdle /\ CfgIdle /\ FbIdle /\ McIdle /\ RqIdle
  /\ AmIdle /\ FxIdle /\ MgIdle /\ CiIdle /\ PxIdle /\ RkIdle /\ RlIdle
  /\ WrIdle /\ CuIdle /\ AeIdle
SpecCanon == CanonSpecInit /\ [][CanonNext]_vars

(* the multitier cache over child backends that may fail *)
MTSpecInit == MTInit /\ LockIdle /\ CanonIdle /\ CfgIdle /\ FbIdle /\ McIdle /\ RqIdle
  /\ AmIdle /\ FxIdle /\ MgIdle /\ CiIdle /\ PxIdle /\ RkIdle /\ RlIdle
  /\ WrIdle /\ CuIdle /\ AeIdle
SpecMT == MTSpecInit /\ [][MTNext]_vars

(* gets on a multitier cache that has Riak children with detect_blank *)
MTRiakSpecInit == MTRiakInit /\ LockIdle /\ CanonIdle /\ CfgIdle /\ FbIdle /\ McIdle /\ RqIdle
  /\ AmIdle /\ FxIdle /\ MgIdle /\ CiIdle /\ PxIdle /\ RkIdle /\ RlIdle
  /\ WrIdle /\ CuIdle /\ AeIdle
SpecMTRiak == MTRiakSpecInit /\ [][MTRiakNext]_vars

(* parsing the <cache> children of one multitier declaration *)
CfgSpecInit == CfgInit /\ LockIdle /\ CanonIdle /\ MTIdle /\ FbIdle /\ McIdle /\ RqIdle
  /\ AmIdle /\ FxIdle /\ MgIdle /\ CiIdle /\ PxIdle /\ RkIdle /\ RlIdle
  /\ WrIdle /\ CuIdle /\ AeIdle
SpecCfg == CfgSpecInit /\ [][CfgNext]_vars

(* workers locking through a fallback locker over disk lockers *)
FbSpecInit == FbInit /\ LockIdle /\ CanonIdle /\ MTIdle /\ CfgIdle /\ McIdle /\ RqIdle
  /\ AmIdle /\ FxIdle /\ MgIdle /\ CiIdle /\ PxIdle /\ RkIdle /\ RlIdle
  /\ WrIdle /\ CuIdle /\ AeIdle
SpecFb == FbSpecInit /\ [][FbNext]_vars

(* workers locking through a memcache locker on one server *)
McSpecInit == McInit /\ LockIdle /\ CanonIdle /\ MTIdle /\ CfgIdle /\ FbIdle /\ RqIdle
  /\ AmIdle /\ FxIdle /\ MgIdle /\ CiIdle /\ PxIdle /\ RkIdle /\ RlIdle
  /\ WrIdle /\ CuIdle /\ AeIdle
SpecMc == McSpecInit /\ [][McNext]_vars

(* one request through the Apache request handler *)
RqSpecInit ==
  RqInit /\ LockIdle /\ CanonIdle /\ MTIdle /\ CfgIdle /\ FbIdle /\ McIdle
  /\ AmIdle /\ FxIdle /\ MgIdle /\ CiIdle /\ PxIdle /\ RkIdle /\ RlIdle
  /\ WrIdle /\ CuIdle /\ AeIdle
SpecRq == RqSpecInit /\ [][RqNext]_vars

(* mapcache_alias_matches on bounded URIs and aliases *)
AmSpecInit ==
  AmInit /\ LockIdle /\ CanonIdle /\ MTIdle /\ CfgIdle /\ FbIdle /\ McIdle
  /\ RqIdle /\ FxIdle /\ MgIdle /\ CiIdle /\ PxIdle /\ RkIdle /\ RlIdle
  /\ WrIdle /\ CuIdle /\ AeIdle
SpecAm == AmSpecInit /\ [][AmNext]_vars

(* one request through the fixups hook *)
FxSpecInit ==
  FxInit /\ LockIdle /\ CanonIdle /\ MTIdle /\ CfgIdle /\ FbIdle /\ McIdle
  /\ RqIdle /\ AmIdle /\ MgIdle /\ CiIdle /\ PxIdle /\ RkIdle /\ RlIdle
  /\ WrIdle /\ CuIdle /\ AeIdle
SpecFx == FxSpecInit /\ [][FxNext]_vars

(* the pool directives of a base server and a virtual host, then the merge *)
MgSpecInit ==
  MgInit /\ LockIdle /\ CanonIdle /\ MTIdle /\ CfgIdle /\ FbIdle /\ McIdle
  /\ RqIdle /\ AmIdle /\ FxIdle /\ CiIdle /\ PxIdle /\ RkIdle /\ RlIdle
  /\ WrIdle /\ CuIdle /\ AeIdle
SpecMg == MgSpecInit /\ [][MgNext]_vars

(* per-worker initialization over a base server and a virtual host *)
CiSpecInit ==
  CiInit /\ LockIdle /\ CanonIdle /\ MTIdle /\ CfgIdle /\ FbIdle /\ McIdle
  /\ RqIdle /\ AmIdle /\ FxIdle /\ MgIdle /\ PxIdle /\ RkIdle /\ RlIdle
  /\ WrIdle /\ CuIdle /\ AeIdle
SpecCi == CiSpecInit /\ [][CiNext]_vars

(* one proxy request through the request handler *)
PxSpecInit ==
  PxInit /\ LockIdle /\ CanonIdle /\ MTIdle /\ CfgIdle /\ FbIdle /\ McIdle
  /\ RqIdle /\ AmIdle /\ FxIdle /\ MgIdle /\ CiIdle /\ RkIdle /\ RlIdle
  /\ WrIdle /\ CuIdle /\ AeIdle
SpecPx == PxSpecInit /\ [][PxNext]_vars

(* the Riak backend: operations on one tile's key *)
RkSpecInit ==
  RkInit /\ LockIdle /\ CanonIdle /\ MTIdle /\ CfgIdle /\ FbIdle /\ McIdle
  /\ RqIdle /\ AmIdle /\ FxIdle /\ MgIdle /\ CiIdle /\ PxIdle /\ RlIdle
  /\ WrIdle /\ CuIdle /\ AeIdle
SpecRk == RkSpecInit /\ [][RkNext]_vars

(* the Riak retry loop under every sequence of outcomes *)
RlSpecInit ==
  RlInit /\ LockIdle /\ CanonIdle /\ MTIdle /\ CfgIdle /\ FbIdle /\ McIdle
  /\ RqIdle /\ AmIdle /\ FxIdle /\ MgIdle /\ CiIdle /\ PxIdle /\ RkIdle
  /\ WrIdle /\ CuIdle /\ AeIdle
SpecRl == RlSpecInit /\ [][RlNext]_vars

(* write_http_response on every response and conditional request *)
WrSpecInit ==
  WrInit /\ LockIdle /\ CanonIdle /\ MTIdle /\ CfgIdle /\ FbIdle /\ McIdle
  /\ RqIdle /\ AmIdle /\ FxIdle /\ MgIdle /\ CiIdle /\ PxIdle /\ RkIdle
  /\ RlIdle /\ CuIdle /\ AeIdle
SpecWr == WrSpecInit /\ [][WrNext]_vars

(* the base URL of a get-capabilities request *)
CuSpecInit ==
  CuInit /\ LockIdle /\ CanonIdle /\ MTIdle /\ CfgIdle /\ FbIdle /\ McIdle
  /\ RqIdle /\ AmIdle /\ FxIdle /\ MgIdle /\ CiIdle /\ PxIdle /\ RkIdle
  /\ RlIdle /\ WrIdle /\ AeIdle
SpecCu == CuSpecInit /\ [][CuNext]_vars

(* the fixups hook, then the handler, over a server's alias list *)
AeSpecInit ==
  AeInit /\ LockIdle /\ CanonIdle /\ MTIdle /\ CfgIdle /\ FbIdle /\ McIdle
  /\ RqIdle /\ AmIdle /\ FxIdle /\ MgIdle /\ CiIdle /\ PxIdle /\ RkIdle
  /\ RlIdle /\ WrIdle /\ CuIdle
SpecAe == AeSpecInit /\ [][AeNext]_vars

(* ======================= properties of the lockers ===================== *)

(* C1: disk locker mutual exclusion. Between two removals of a lock file at *)
(* most one acquire on it returns Acquired, the file exists as long as it   *)
(* is held, an acquire returns Acquired only when it found no file, and an  *)
(* acquire that finds the file (and hits no other open error) gets Locked.  *)
DiskLockerMutualExclusion ==
  /\ \A f \in LockFiles :
       /\ Cardinality(hist.holders[f]) <= 1
       /\ hist.holders[f] # {} => f \in files
  /\ \A w \in Workers :
       /\ hist.acq[w] = "AQUIRED" => ~hist.acqSaw[w]
       /\ (hist.acqSaw[w] /\ hist.path[w] # "error") => hist.acq[w] = "LOCKED"

DiskLockerContended ==
  \E w1, w2 \in Workers :
    /\ w1 # w2
    /\ res[w1] = res[w2]
    /\ hist.holders[LockName(w1)] = {w1}
    /\ hist.acq[w2] = "LOCKED"
    /\ hist.acqSaw[w2]

Coalesced(w) ==
  /\ hist.calls[w] = 1
  /\ hist.acq[w] = "LOCKED"
  /\ hist.path[w] = "noent"
  /\ ret[w] = "FALSE"
  /\ resp[w] # 0
  /\ resp[w] = cache[res[w]]

SameColdTileServed ==
  /\ \A w1, w2 \in Workers : res[w1] = res[w2]
  /\ \A w \in Workers : pc[w] = "done" /\ hist.calls[w] >= 1
  /\ \A w \in Workers : hist.timeouts[w] = 0

WaitLoopDiscipline ==
  \A w \in Workers :
    /\ pc[w] = "sleep" =>
         /\ rv[w] = "LOCKED"
         /\ hist.atCheck[w] <= Timeout
         /\ hist.sleeps[w] = hist.pings[w] + 1
    /\ pc[w] = "check" => rv[w] = "LOCKED" /\ hist.sleeps[w] = hist.pings[w]
    /\ hist.path[w] = "timeout" =>
         /\ hist.atCheck[w] > Timeout
         /\ hist.pathRel[w] = 1
         /\ hist.logs[w] >= 1
         /\ ret[w] = "FALSE"
         /\ hist.sleeps[w] = hist.pings[w]
    /\ hist.path[w] = "noent" =>
         /\ rv[w] = "NOENT"
         /\ hist.pathRel[w] = 0
         /\ hist.pings[w] >= 1
         /\ hist.sleeps[w] = hist.pings[w]
    /\ hist.path[w] = "acquired" => hist.pathRel[w] = 0 /\ hist.pings[w] = 0

TimedOutAfterRepeatedPings ==
  \E w \in Workers :
    /\ hist.path[w] = "timeout"
    /\ hist.pings[w] >= 2
    /\ hist.pathRel[w] = 1

(* C6: one release per successful acquire: no worker releases more often    *)
(* than its acquires returned Acquired, and a worker that has responded     *)
(* released exactly as often.                                               *)
OneReleasePerAquire ==
  \A w \in Workers :
    /\ hist.released[w] <= hist.aquired[w]
    /\ pc[w] = "done" => hist.released[w] = hist.aquired[w]

(* C6 amended: besides the one release that follows each of its own         *)
(* successful acquires, a worker releases only the lock it waited on when   *)
(* its wait ran into the timeout, once per such wait.                       *)
OneReleasePerAquireOrTimeout ==
  \A w \in Workers :
    /\ hist.released[w] <= hist.aquired[w] + hist.timeouts[w]
    /\ pc[w] = "done" => hist.released[w] = hist.aquired[w] + hist.timeouts[w]
    /\ pc[w] \in {"render", "set", "unlock"} =>
         hist.released[w] + 1 = hist.aquired[w] + hist.timeouts[w]

ReleasedOwnAndStale ==
  \E w \in Workers :
    /\ pc[w] = "done"
    /\ hist.timeouts[w] = 1
    /\ hist.aquired[w] = 1
    /\ hist.released[w] = 2


DiskNamePrefix == LockDir \o <<"/">> \o MAPCACHE_LOCKFILE_PREFIX

KeyNamePrefix == cPrefix \o MAPCACHE_LOCKFILE_PREFIX

CanonPart(name, prefix) ==
  SubSeq(name, Len(prefix) + 1, Len(name) - Len(LckSuffix))

Replaced(canon, resource, unsafe) ==
  /\ Len(canon) = Len(resource)
  /\ \A i \in 1..Len(resource) :
       /\ canon[i] \notin unsafe
       /\ canon[i] = IF resource[i] \in unsafe THEN "#" ELSE resource[i]

(* C7 as stated: the canonical part of the lock file name and of the        *)
(* memcache key holds none of the eleven characters, each replaced by '#',  *)
(* and the names are <dir>/_gc_lock<canonical>.lck and                      *)
(* <prefix>_gc_lock<canonical>.lck.                                         *)
LockNamesAvoidElevenChars ==
  /\ cDisk # <<>> =>
       /\ cDisk = DiskNamePrefix \o CanonPart(cDisk, DiskNamePrefix) \o LckSuffix
       /\ Replaced(CanonPart(cDisk, DiskNamePrefix), cRes,
                   {" ", "/", "~", ".", "CR", "LF", "TAB", "FF", "ESC", "BEL", "BS"})
  /\ cKey # <<>> =>
       /\ cKey = KeyNamePrefix \o CanonPart(cKey, KeyNamePrefix) \o LckSuffix
       /\ Replaced(CanonPart(cKey, KeyNamePrefix), cRes,
                   {" ", "/", "~", ".", "CR", "LF", "TAB", "FF", "ESC", "BEL", "BS"})

(* C7 amended: the memcache key is as stated; in the disk lock file name    *)
(* only space, '/', '~' and '.' are replaced by '#', and the control        *)
(* characters are kept.                                                     *)
LockNamesCanonical ==
  /\ cDisk # <<>> =>
       /\ cDisk = DiskNamePrefix \o CanonPart(cDisk, DiskNamePrefix) \o LckSuffix
       /\ Replaced(CanonPart(cDisk, DiskNamePrefix), cRes, {" ", "/", "~", "."})
  /\ cKey # <<>> =>
       /\ cKey = KeyNamePrefix \o CanonPart(cKey, KeyNamePrefix) \o LckSuffix
       /\ Replaced(CanonPart(cKey, KeyNamePrefix), cRes,
                   {" ", "/", "~", ".", "CR", "LF", "TAB", "FF", "ESC", "BEL", "BS"})

ControlCharKeptInDiskName ==
  /\ cDisk # <<>>
  /\ cKey # <<>>
  /\ cPrefix # <<>>
  /\ \E i, j \in 1..Len(cRes) :
       /\ cRes[i] = "LF"
       /\ cRes[j] = "."
       /\ CanonPart(cDisk, DiskNamePrefix)[i] = "LF"
       /\ CanonPart(cDisk, DiskNamePrefix)[j] = "#"
       /\ CanonPart(cKey, KeyNamePrefix)[i] = "#"

(* =================== properties of the multitier cache ================= *)
Logged(e) == \E n \in 1..Len(mtLog) : mtLog[n] = e

NoChildFailure == \A n \in 1..Len(mtLog) : mtLog[n][3] # "FAILURE"

OnlyInTier(k) == mtPre[k] # 0 /\ \A i \in Tiers \ {k} : mtPre[i] = 0

ChildFailureSurfaced ==
  (mtOp = "get" /\ \E i \in Tiers : Logged(<<"get", i, "FAILURE">>)) =>
    mtRet = "FAILURE"

(* C10: a hit at tier k>0 returns Success with no error in the context,     *)
(* whatever promotion sets failed; a set was issued on every tier above k,  *)
(* and each tier whose set did not fail holds the tile.                     *)
PromotionFailuresSwallowed ==
  \A k \in Tiers \ {0} :
    (mtOp = "get" /\ Logged(<<"get", k, "SUCCESS">>)) =>
      /\ mtRet = "SUCCESS"
      /\ mtErr = 0
      /\ \A i \in 0..(k - 1) :
           /\ Logged(<<"set", i, "OK">>) \/ Logged(<<"set", i, "FAILURE">>)
           /\ Logged(<<"set", i, "OK">>) => mtCaches[i] = mtTile
           /\ Logged(<<"set", i, "FAILURE">>) => mtCaches[i] = mtPre[i]

PromotionSetFailedAndSwallowed ==
  /\ mtOp = "get"
  /\ Logged(<<"get", 2, "SUCCESS">>)
  /\ Logged(<<"set", 1, "FAILURE">>)
  /\ Logged(<<"set", 0, "OK">>)
  /\ mtRet = "SUCCESS"
  /\ mtErr = 0
  /\ mtCaches[0] = mtTile

(* C11: promotion order. After a hit at tier k>0 the log of the call is the *)
(* gets on tiers 0..k followed by exactly one set per tier k-1, k-2, ..., 0 *)
(* in that order: tier 0 is written last, no tier from k downwards is       *)
(* written.                                                                 *)
SetsOf(log) == SelectSeq(log, LAMBDA e : e[1] = "set")

PromotionOrderNearestLast ==
  \A k \in Tiers \ {0} :
    (mtOp = "get" /\ Logged(<<"get", k, "SUCCESS">>)) =>
      /\ Len(mtLog) = (k + 1) + k
      /\ \A n \in 1..(k + 1) : mtLog[n][1] = "get" /\ mtLog[n][2] = n - 1
      /\ \A j \in 1..k :
           /\ mtLog[k + 1 + j][1] = "set"
           /\ mtLog[k + 1 + j][2] = k - j
      /\ Len(SetsOf(mtLog)) = k
      /\ \A i \in k..(NTiers - 1) : mtCaches[i] = mtPre[i]

PromotedTwoThenOneThenZero ==
  /\ mtOp = "get"
  /\ Logged(<<"get", NTiers - 1, "SUCCESS">>)
  /\ Len(SetsOf(mtLog)) = NTiers - 1
  /\ SetsOf(mtLog)[1][2] = NTiers - 2
  /\ SetsOf(mtLog)[NTiers - 1][2] = 0

(* C12: set and multi_set issue exactly one operation of their kind, on the *)
(* configured writer tier; no other tier is touched or changed; the writer  *)
(* tier's error is the error of the call, and a writer that did not fail    *)
(* holds the tile.                                                          *)
WriterTierOnly ==
  (mtOp \in {"set", "multi_set"}) =>
    /\ Len(mtLog) = 1
    /\ mtLog[1][1] = mtOp
    /\ mtLog[1][2] = mtWrite
    /\ \A i \in Tiers \ {mtWrite} : mtCaches[i] = mtPre[i]
    /\ mtLog[1][3] = "FAILURE" => (mtErr # 0 /\ mtCaches[mtWrite] = mtPre[mtWrite])
    /\ mtLog[1][3] = "OK" => (mtErr = 0 /\ mtCaches[mtWrite] = mtTile)

WroteLowerTierOnly ==
  /\ mtOp = "set"
  /\ mtWrite = NTiers - 1
  /\ mtLog = << <<"set", mtWrite, "OK">> >>
  /\ mtCaches[mtWrite] = mtTile
  /\ mtCaches[mtWrite] # mtPre[mtWrite]
  /\ mtCaches[0] = 0

(* C13: delete issues one delete per tier, in tier order, whether or not an *)
(* earlier one failed, and returns with no error in the context; a tier     *)
(* whose delete did not fail no longer holds the tile.                      *)
DeleteBroadcast ==
  mtOp = "delete" =>
    /\ Len(mtLog) = NTiers
    /\ \A n \in 1..NTiers : mtLog[n][1] = "delete" /\ mtLog[n][2] = n - 1
    /\ mtErr = 0
    /\ \A i \in Tiers :
         /\ mtLog[i + 1][3] = "OK" => mtCaches[i] = 0
         /\ mtLog[i + 1][3] = "FAILURE" => mtCaches[i] = mtPre[i]

DeletedPastFailedTier ==
  /\ mtOp = "delete"
  /\ mtLog[1] = <<"delete", 0, "FAILURE">>
  /\ mtLog[NTiers] = <<"delete", NTiers - 1, "OK">>
  /\ mtPre[NTiers - 1] # 0
  /\ mtCaches[NTiers - 1] = 0
  /\ mtErr = 0

(* C14: exists returns true exactly when some tier's exists reported true;  *)
(* it returns false only after every tier reported false.                   *)
ExistsIffSomeTierTrue ==
  mtOp = "exists" =>
    /\ mtRet \in {"TRUE", "FALSE"}
    /\ mtRet = "TRUE" <=> \E i \in Tiers : Logged(<<"exists", i, "TRUE">>)
    /\ mtRet = "FALSE" =>
         /\ Len(mtLog) = NTiers
         /\ \A i \in Tiers : mtLog[i + 1] = <<"exists", i, "FALSE">>
    /\ mtCaches = mtPre

ExistsFoundInLastTier ==
  /\ mtOp = "exists"
  /\ mtRet = "TRUE"
  /\ Len(mtLog) = NTiers
  /\ mtLog[1] = <<"exists", 0, "FALSE">>
  /\ mtLog[NTiers] = <<"exists", NTiers - 1, "TRUE">>

(* C36: the frame of a get. A get that hits at tier k calls no child        *)
(* operation on a tier deeper than k, sets only tiers nearer than k, and    *)
(* leaves the content of every tier from k downwards as it was; a hit at    *)
(* tier 0 and a get that returns Miss call no set and change no tier.       *)
MultitierGetFrame ==
  mtOp = "get" =>
    /\ \A k \in Tiers :
         Logged(<<"get", k, "SUCCESS">>) =>
           /\ \A n \in 1..Len(mtLog) :
                /\ mtLog[n][2] <= k
                /\ mtLog[n][1] = "set" => mtLog[n][2] < k
           /\ \A i \in k..(NTiers - 1) : mtCaches[i] = mtPre[i]
           /\ k = 0 => (SetsOf(mtLog) = <<>> /\ mtCaches = mtPre)
    /\ mtRet = "MISS" => (SetsOf(mtLog) = <<>> /\ mtCaches = mtPre)

HitAboveAnotherCopy ==
  /\ mtOp = "get"
  /\ Logged(<<"get", 1, "SUCCESS">>)
  /\ Logged(<<"set", 0, "OK">>)
  /\ mtPre[2] # 0
  /\ mtPre[2] # mtPre[1]
  /\ mtCaches[2] = mtPre[2]
  /\ \A n \in 1..Len(mtLog) : mtLog[n][2] # 2

(* C37: after a hit at tier k>0 the encoded data handed back to the caller  *)
(* are the bytes tier k served, and every nearer tier whose set succeeded   *)
(* was given those bytes. What a Riak tier with detect_blank keeps as its   *)
(* own object is left aside: the statement is about the caller's tile and   *)
(* about the tiers of other kinds.                                          *)
PromotionKeepsServedBytes ==
  \A k \in Tiers \ {0} :
    (mtOp = "get" /\ Logged(<<"get", k, "SUCCESS">>)) =>
      /\ mtTile = mtPre[k]
      /\ \A i \in 0..(k - 1) \ mtBlank :
           Logged(<<"set", i, "OK">>) => mtCaches[i] = mtPre[k]

(* ================ properties of the multitier configuration ============= *)
ChildrenWith(attrs) == {i \in 0..(Len(cfgChildren) - 1) : cfgChildren[i + 1].write \in attrs}

LastOf(S) == CHOOSE i \in S : \A j \in S : j <= i

ParsedOk == cfgParsed /\ cfgErr = 0

(* C15 as stated: after a successful parse, a single write="true" child is  *)
(* the writer; with no write="true" child the writer is the last child      *)
(* whose write attribute is not "false".                                    *)
WriterIsLastNotFalse ==
  ParsedOk =>
    /\ Cardinality(ChildrenWith({"true"})) = 1 =>
         cfgWriteIdx \in ChildrenWith({"true"})
    /\ (ChildrenWith({"true"}) = {} /\ ChildrenWith(WriteAttrs \ {"false"}) # {}) =>
         cfgWriteIdx = LastOf(ChildrenWith(WriteAttrs \ {"false"}))

(* C15 amended: with no write="true" child the writer is the last child     *)
(* that has no write attribute at all; a write attribute of any other value *)
(* makes its child read-only, and a list of read-only children fails (400). *)
WriterIsLastWithoutAttr ==
  /\ ParsedOk =>
       /\ Cardinality(ChildrenWith({"true"})) = 1 =>
            cfgWriteIdx \in ChildrenWith({"true"})
       /\ ChildrenWith({"true"}) = {} =>
            /\ ChildrenWith({"absent"}) # {}
            /\ cfgWriteIdx = LastOf(ChildrenWith({"absent"}))
  /\ (cfgParsed /\ ChildrenWith({"true", "absent"}) = {}) => cfgErr = 400

DefaultWriterBeforeReadOnlyChild ==
  /\ ParsedOk
  /\ Len(cfgChildren) = NTiers
  /\ ChildrenWith({"true"}) = {}
  /\ cfgChildren[NTiers].write = "yes"
  /\ cfgChildren[1].write = "absent"
  /\ cfgWriteIdx = NTiers - 2

(* C16: parsing fails with 400 on an empty child list, on more than one     *)
(* write="true" child, and on a child naming an undeclared cache; after a   *)
(* successful parse every child is in the cache, there is at least one, and *)
(* the writer index is one of them.                                         *)
ConfigErrorsAndWriterRange ==
  cfgParsed =>
    /\ cfgErr \in {0, 400}
    /\ Len(cfgChildren) = 0 => cfgErr = 400
    /\ Cardinality(ChildrenWith({"true"})) > 1 => cfgErr = 400
    /\ (\E n \in 1..Len(cfgChildren) : ~cfgChildren[n].declared) => cfgErr = 400
    /\ cfgErr = 0 =>
         /\ Len(cfgCaches) >= 1
         /\ Len(cfgCaches) = Len(cfgChildren)
         /\ cfgWriteIdx >= 0
         /\ cfgWriteIdx < Len(cfgCaches)

TwoWritersRejected ==
  /\ cfgParsed
  /\ cfgErr = 400
  /\ Len(cfgChildren) >= 2
  /\ \A n \in 1..Len(cfgChildren) : cfgChildren[n].declared
  /\ Cardinality(ChildrenWith({"true"})) = 2
  /\ Len(cfgCaches) < Len(cfgChildren)

(* ================== properties of the fallback locker ================== *)
FbAquired(w) == fbLog[w] # <<>> /\ fbLog[w][1][1] = "aquire"

FbLast(w) == fbLog[w][Len(fbLog[w])]

(* C17: acquire calls the children in configured order, each with the       *)
(* resource's lock in its own directory, and stops at the first child that  *)
(* sets no error: it returns that child's result, and the token names that  *)
(* child and holds that child's token. Ping and release make one call, on   *)
(* the child and with the child token that the token holds.                 *)
FallbackFirstHealthyChildOwns ==
  \A w \in Workers :
    /\ FbAquired(w) =>
         /\ Len(fbLog[w]) <= NLockers
         /\ \A n \in 1..Len(fbLog[w]) :
              /\ fbLog[w][n][1] = "aquire"
              /\ fbLog[w][n][2] = n - 1
              /\ fbLog[w][n][3] = FbLockName(n - 1, fbRes[w])
              /\ n < Len(fbLog[w]) => fbLog[w][n][4] = "ERROR"
         /\ FbLast(w)[4] # "ERROR" =>
              /\ fbRv[w] = FbLast(w)[4]
              /\ fbTok[w].locker = FbLast(w)[2]
              /\ fbTok[w].lock = FbLast(w)[3]
         /\ FbLast(w)[4] = "ERROR" => Len(fbLog[w]) = NLockers
    /\ (fbLog[w] # <<>> /\ ~FbAquired(w)) =>
         /\ Len(fbLog[w]) = 1
         /\ fbLog[w][1][1] \in {"ping", "release"}
         /\ fbLog[w][1][2] = fbTok[w].locker
         /\ fbLog[w][1][3] = fbTok[w].lock
         /\ fbTok[w].locker \in Lockers
         /\ fbTok[w].lock = FbLockName(fbTok[w].locker, fbRes[w])
    /\ fbPc[w] = "own" => fbTok[w].lock \in fbFiles[fbTok[w].locker]

ReleasedOnSecondChild ==
  \E w \in Workers :
    /\ fbLog[w] = << <<"release", 1, FbLockName(1, fbRes[w]), "NONE">> >>
    /\ fbTok[w].locker = 1
    /\ fbFiles[1] = {}

(* C18: when a child of an acquire succeeds, the context carries no error,  *)
(* whatever earlier children raised; when every child fails, acquire        *)
(* returns Noent and the context carries the last child's error.            *)
FallbackErrorsSuppressed ==
  \A w \in Workers :
    FbAquired(w) =>
      /\ FbLast(w)[4] # "ERROR" => fbErr[w] = NoError
      /\ FbLast(w)[4] = "ERROR" =>
           /\ fbRv[w] = "NOENT"
           /\ fbErr[w] = <<500, FbLockName(NLockers - 1, fbRes[w])>>
           /\ fbTok[w].locker = NullLocker

SecondChildServedAfterError ==
  \E w \in Workers :
    /\ FbAquired(w)
    /\ Len(fbLog[w]) = 2
    /\ fbLog[w][1][4] = "ERROR"
    /\ fbLog[w][2][4] = "AQUIRED"
    /\ fbErr[w] = NoError
    /\ fbPc[w] = "own"

(* C38: mutual exclusion through the fallback locker. No two workers hold   *)
(* Acquired for the same resource at the same time, whichever children      *)
(* served their acquires.                                                   *)
FallbackMutualExclusion ==
  \A w1, w2 \in Workers :
    (w1 # w2 /\ fbRes[w1] = fbRes[w2]) => ~(fbPc[w1] = "own" /\ fbPc[w2] = "own")

(* ================== properties of the memcache locker ================== *)
AquireFollowsAdd(w) ==
  mcCall[w].op = "aquire" =>
    /\ mcCall[w].key = memcache_key_for_resource(mcPrefix, mcRes[w])
    /\ mcRv[w] = "AQUIRED" <=> mcCall[w].status = "SUCCESS"
    /\ mcRv[w] = "LOCKED" <=> mcCall[w].status = "EEXIST"

ExpirationIsTimeout(w) ==
  (mcCall[w].op = "aquire" /\ mcCall[w].status = "SUCCESS") =>
    mcCall[w].exp = mcTimeout

PingIffPresent(w) ==
  mcCall[w].op = "ping" => (mcRv[w] = "LOCKED" <=> mcCall[w].present)

ReleaseDeletes(w) ==
  mcCall[w].op = "release" => ~mcCall[w].after

(* C19: acquire returns Acquired exactly when the add of the canonicalized  *)
(* key succeeded, the key then being stored with an expiration equal to the *)
(* locker timeout, and Locked exactly when add reported EEXIST; ping        *)
(* returns Locked exactly when the key is present; after release the key is *)
(* absent.                                                                  *)
MemcacheLockerContract ==
  \A w \in Workers :
    /\ AquireFollowsAdd(w)
    /\ ExpirationIsTimeout(w)
    /\ PingIffPresent(w)
    /\ ReleaseDeletes(w)

(* ================== properties of the request handler ================== *)
(* C20: a request whose handler is not mapcache is declined; a mapcache     *)
(* request with a method other than GET and POST is answered 405 without a  *)
(* request context being created and without dispatch; a GET or POST for    *)
(* which no alias context can be built is declined, undispatched; only a    *)
(* GET or POST with a context is dispatched.                                *)
RequestAdmission ==
  rqRet # <<>> =>
    /\ rqHandler # "mapcache" =>
         (rqRet = <<DECLINED>> /\ ~rqCtxCreated /\ ~rqDispatched)
    /\ (rqHandler = "mapcache" /\ rqMethod \notin {"GET", "POST"}) =>
         (rqRet = <<405>> /\ ~rqCtxCreated /\ ~rqDispatched)
    /\ (rqHandler = "mapcache" /\ rqMethod \in {"GET", "POST"}
          /\ apache_request_context_create(rqCfg, rqNote) = NullCtx) =>
         (rqRet = <<DECLINED>> /\ ~rqDispatched)
    /\ rqDispatched =>
         /\ rqHandler = "mapcache"
         /\ rqMethod \in {"GET", "POST"}
         /\ rqCtx # NullCtx
         /\ rqCfg.aliases[rqCtx + 1] = rqNote

PutRejectedBeforeContext ==
  /\ rqHandler = "mapcache"
  /\ rqMethod = "PUT"
  /\ rqCfg.present
  /\ rqCfg.aliases = <<"/a", "/b">>
  /\ rqNote = "/b"
  /\ rqRet = <<405>>
  /\ ~rqCtxCreated

(* ===================== properties of the alias matching ================ *)
(* s with every run of '/' replaced by one '/' *)
RECURSIVE Collapse(_)
Collapse(s) ==
  IF Len(s) <= 1 THEN s
  ELSE IF s[1] = "/" /\ s[2] = "/" THEN Collapse(Tail(s))
       ELSE <<s[1]>> \o Collapse(Tail(s))

(* the lengths of the prefixes of uri that alias matches: equal to the    *)
(* alias up to the length of the runs of '/', and ending where a path     *)
(* segment of the URI ends, or after a '/' that ends the alias            *)
MatchLens(uri, alias) ==
  {n \in 0..Len(uri) :
     /\ Collapse(SubSeq(uri, 1, n)) = Collapse(alias)
     /\ \/ n = Len(uri)
        \/ uri[n + 1] = "/"
        \/ (alias # <<>> /\ alias[Len(alias)] = "/")}

(* the URI characters consumed: a run of '/' that ends the alias takes    *)
(* the whole run of the URI                                               *)
Consumed(uri, alias) ==
  IF MatchLens(uri, alias) = {} THEN 0
  ELSE CHOOSE n \in MatchLens(uri, alias) :
         \A k \in MatchLens(uri, alias) : k <= n

(* C22: mapcache_alias_matches returns the number of URI characters the   *)
(* alias consumes, runs of '/' matching runs of '/', other characters     *)
(* literally, the alias ending at a path-segment boundary of the URI; it  *)
(* returns 0 when the alias does not match.                               *)
AliasMatchIsSegmentPrefix ==
  amRet # <<>> => amRet[1] = Consumed(amUri, amAlias)

(* alias /a consumed the three characters //a of //a/b *)
AliasMatchedAfterDoubleSlash ==
  /\ amUri = <<"/", "/", "a", "/">>
  /\ amAlias = <<"/", "a">>
  /\ amRet = <<3>>

(* ====================== properties of the fixups hook ================== *)
(* the positions of the aliases that match the URI *)
FxMatching == {i \in 1..Len(fxCfg.aliases) : Consumed(fxUri, fxCfg.aliases[i]) > 0}

FxFirst == CHOOSE i \in FxMatching : \A k \in FxMatching : i <= k

FxRouted ==
  /\ fxRet = <<OK>>
  /\ fxHandler = "mapcache"
  /\ fxNote = <<fxCfg.aliases[FxFirst]>>
  /\ fxPathInfo =
       <<SubSeq(fxUri, Consumed(fxUri, fxCfg.aliases[FxFirst]) + 1, Len(fxUri))>>

FxLeftUnchanged ==
  /\ fxRet = <<DECLINED>>
  /\ fxHandler = fxHandlerIn
  /\ fxNote = <<>>
  /\ fxPathInfo = <<>>

(* C21 as stated: the first alias that matches the URI wins, and the      *)
(* request is declined and left unchanged when no alias matches or a      *)
(* handler is already set.                                                *)
FixupsFirstMatchWins ==
  fxRet # <<>> =>
    IF fxHandlerIn = "NULL" /\ fxCfg.present /\ FxMatching # {}
    THEN FxRouted
    ELSE FxLeftUnchanged

(* C21: for a request without a handler whose URI is empty or begins with *)
(* '/', the first alias in list order that matches the URI wins: the      *)
(* handler becomes mapcache, the note names that alias and path-info is   *)
(* the URI after the matched prefix; a request with a handler, with a URI *)
(* that begins with another character, or that no alias matches is        *)
(* declined and left unchanged.                                           *)
FixupsFirstMatchOfPathWins ==
  fxRet # <<>> =>
    IF /\ fxHandlerIn = "NULL"
       /\ fxCfg.present
       /\ (fxUri = <<>> \/ fxUri[1] = "/")
       /\ FxMatching # {}
    THEN FxRouted
    ELSE FxLeftUnchanged

(* /a/b was routed by the second alias /a, the first alias a not matching *)
RoutedBySecondAlias ==
  /\ fxCfg.aliases = <<<<"a">>, <<"/", "a">>>>
  /\ fxUri = <<"/", "a", "/", "b">>
  /\ fxRet = <<OK>>
  /\ fxNote = <<<<"/", "a">>>>
  /\ fxPathInfo = <<<<"/", "b">>>>

(* ================= properties of the server configuration ============== *)
(* C23: the merged configuration holds the virtual host's value of each   *)
(* pool option the virtual host set and the base server's value (the      *)
(* default when the base did not set it) otherwise; the merged is-set bit *)
(* is the OR of the two is-set bits.                                      *)
HostOptionMerge ==
  mgMerged # <<>> =>
    \A o \in CpOptions :
      /\ mgMerged[1].val[o] =
           IF mgCfg["vhost"].is_set[o] THEN mgCfg["vhost"].val[o]
           ELSE mgCfg["base"].val[o]
      /\ mgMerged[1].is_set[o] =
           (mgCfg["vhost"].is_set[o] \/ mgCfg["base"].is_set[o])

(* ============== properties of the per-worker initialization ============ *)
CiAliases(s) == {ciServers[s].aliases[i] : i \in 1..Len(ciServers[s].aliases)}

PoolsBound(s) ==
  /\ \A a \in CiAliases(s) : ciCp[a] > 0
  /\ IF ciServers[s].val["cp_sharing"] # 0
     THEN \A a, b \in CiAliases(s) : ciCp[a] = ciCp[b]
     ELSE \A a, b \in CiAliases(s) : a # b => ciCp[a] # ciCp[b]

(* C24: after per-worker initialization every alias of every server has  *)
(* a connection pool; with sharing enabled all aliases of one server are  *)
(* bound to one pool, with sharing disabled each alias of a server has a  *)
(* pool of its own.                                                       *)
PoolBinding ==
  ciDone => \A s \in 1..Len(ciServers) : PoolsBound(s)

(* ====================== properties of proxy requests =================== *)
(* C25: every proxied request, GET or POST, is forwarded with             *)
(* X-Forwarded-For, X-Forwarded-Host and X-Forwarded-Server, the client   *)
(* address, the Host header and the server name appended to the inbound   *)
(* values.                                                                *)
ForwardedHeadersOnEveryProxy ==
  (pxDone /\ pxForwarded) =>
    /\ pxHeaders["X-Forwarded-For"] = pxIn.xff \o <<ClientIp>>
    /\ pxIn.host # <<>> =>
         pxHeaders["X-Forwarded-Host"] = pxIn.xfh \o pxIn.host
    /\ pxHeaders["X-Forwarded-Server"] = pxIn.xfs \o <<ServerHostname>>

(* C26: a proxied POST body of length L is forwarded in full when L does  *)
(* not exceed max_post_len and is rejected with 413, without being        *)
(* forwarded, exactly when L exceeds it, with or without a Content-Length *)
(* header.                                                                *)
PostBodyLimit ==
  (pxDone /\ pxMethod = "POST" /\ ~pxReadFails) =>
    IF pxBody <= pxMax
    THEN pxForwarded /\ pxErr = 0 /\ pxPostLen = pxBody
    ELSE ~pxForwarded /\ pxErr = HTTP_REQUEST_ENTITY_TOO_LARGE

(* ====================== properties of the Riak backend ================= *)
RiakOps == {"exists", "get", "set", "delete"}

RiakBorrowed == rkOut.pool # <<>> /\ rkOut.pool[1] = "borrow"

(* C27: in exists, get, set and delete, every path that returns after a   *)
(* connection was borrowed calls exactly one of release and invalidate on *)
(* it, exactly once; neither is called when the borrow failed             *)
PooledConnectionDiscipline ==
  rkOp \in RiakOps =>
    IF RiakBorrowed
    THEN /\ Len(rkOut.pool) = 2
         /\ rkOut.pool[2] \in {"release", "invalidate"}
    ELSE \A i \in 1..Len(rkOut.pool) :
           rkOut.pool[i] \notin {"release", "invalidate"}

(* a set that failed after a failed reconnect invalidated the connection  *)
(* it had borrowed                                                        *)
SetInvalidatedBorrowed ==
  /\ rkOp = "set"
  /\ rkOut.pool = <<"borrow", "invalidate">>
  /\ rkOut.err = 500

(* the outcome of the retry loop of the last operation *)
RiakLoop ==
  RiakRetry(1, 1, Retries, FALSE, OkFrom(rkIn.first), rkIn.recOk)

RiakFailed == rkOp \in RiakOps /\ RiakBorrowed /\ RiakLoop.error

(* C28: whenever a Riak operation ends in failure after its retries, the  *)
(* borrowed connection is invalidated, not released for reuse, and the    *)
(* failure surfaces as an Internal (500) error                            *)
FailureInvalidatesConnection ==
  RiakFailed => rkOut.pool = <<"borrow", "invalidate">> /\ rkOut.err = 500

(* Riak answered the read of the last get *)
RiakAnswered == RiakBorrowed /\ ~RiakLoop.error

RiakAbsentOrEmpty == rkStore = <<>> \/ rkStore[1].data = <<>>

(* the bytes get leaves in the tile for the stored object *)
RiakTileData ==
  IF rkVariant = "riak2" /\ IsSentinel(rkStore[1])
  THEN EmptyPng(rkStore[1].data) ELSE rkStore[1].data

GetAfterSet == rkOp = "get" /\ rkLastSet # <<>> /\ RiakAnswered

(* C30 as stated: set(t) followed by get(t), with no delete in between,   *)
(* returns Success with bytes equal to the bytes stored, for every        *)
(* payload, an empty one included, with blank detection on or off         *)
RiakRoundTrip ==
  GetAfterSet =>
    /\ rkOut.ret = "MAPCACHE_SUCCESS"
    /\ rkOut.data = rkLastSet[1].encoded_data

(* the last set stored the tile as the sentinel of a blank tile *)
StoredAsBlank ==
  rkVariant = "riak2" /\ rkDetect /\ rkLastSet[1].raw_image = "uniform"

(* C30: set(t) followed by get(t), with no delete in between, returns     *)
(* Success with the bytes given to set when they are not empty and the    *)
(* tile was not stored as blank; a tile stored as blank reads back as     *)
(* Success with the regenerated blank image, and an empty payload stored  *)
(* as it is reads back as Miss                                            *)
RiakRoundTripOfStoredBytes ==
  GetAfterSet =>
    IF StoredAsBlank
    THEN /\ rkOut.ret = "MAPCACHE_SUCCESS"
         /\ rkOut.data = EmptyPng(<<"#">> \o rkLastSet[1].pixel)
    ELSE IF rkLastSet[1].encoded_data = <<>>
    THEN rkOut.ret = "MAPCACHE_CACHE_MISS" /\ rkOut.data = <<>>
    ELSE /\ rkOut.ret = "MAPCACHE_SUCCESS"
         /\ rkOut.data = rkLastSet[1].encoded_data

(* a tile of one color was set with blank detection on and read back *)
BlankTileReadBack ==
  /\ GetAfterSet
  /\ StoredAsBlank
  /\ rkLastSet[1].encoded_data # <<>>
  /\ rkOut.ret = "MAPCACHE_SUCCESS"

(* C31: with detect_blank on, a set that succeeds on a tile whose image   *)
(* has one color stores exactly five bytes, '#' and the four bytes of the *)
(* color, with MIME image/mapcache-rgba, and a get that reads such an     *)
(* object yields the blank tile of that color; with detect_blank off a    *)
(* set that succeeds stores the encoded bytes of the tile, never the      *)
(* sentinel                                                               *)
BlankTileDetection ==
  /\ (rkOp = "set" /\ rkOut.err = 0) =>
       IF rkDetect /\ rkLastSet[1].raw_image = "uniform"
       THEN /\ Len(rkStore[1].data) = 5
            /\ rkStore[1].data = <<"#">> \o rkLastSet[1].pixel
            /\ rkStore[1].content_type = "image/mapcache-rgba"
       ELSE /\ rkStore[1].data = rkLastSet[1].encoded_data
            /\ ~IsSentinel(rkStore[1])
  /\ (rkOp = "get" /\ RiakAnswered /\ rkDetect /\ ~RiakAbsentOrEmpty
       /\ IsSentinel(rkStore[1])) =>
       /\ rkOut.ret = "MAPCACHE_SUCCESS"
       /\ rkOut.data = EmptyPng(rkStore[1].data)

(* a tile of one color other than the default was stored as the sentinel  *)
(* with blank detection on                                                *)
StoredSentinelOfColor ==
  /\ rkOp = "set"
  /\ rkOut.err = 0
  /\ rkDetect
  /\ rkLastSet[1].raw_image = "uniform"
  /\ rkLastSet[1].pixel # NoTile.pixel
  /\ IsSentinel(rkStore[1])

(* ==================== properties of the Riak retry loop ================ *)
(* C35: the retry loop of exists, get, set and delete makes at most four  *)
(* attempts and at most four reconnects for every sequence of outcomes,   *)
(* the one where everything fails included, and it stops at the first     *)
(* attempt that succeeds                                                  *)
RetryLoopBounded ==
  rlLoop # <<>> =>
    /\ rlLoop[1].attempts \in 1..(Retries + 1)
    /\ rlLoop[1].reconnects \in 0..(Retries + 1)
    /\ \A k \in 1..(rlLoop[1].attempts - 1) : ~rlOpOk[k]
    /\ rlLoop[1].error <=> ~rlOpOk[rlLoop[1].attempts]
    /\ rlLoop[1].reconnects >= rlLoop[1].attempts - 1

(* the loop gave up after four failed attempts *)
GaveUpAfterFourAttempts ==
  /\ rlLoop # <<>>
  /\ rlLoop[1].error
  /\ rlLoop[1].attempts = Retries + 1

(* ====================== properties of the HTTP response ================ *)
(* C32: conditional GET. A response with a tile mtime leaves Last-Modified, *)
(* the date of that mtime, among the headers of the reply; when the         *)
(* request's If-Modified-Since is that date (and not after the request's    *)
(* time) the reply is 304, no body byte is written, no header of the        *)
(* response is copied, and Last-Modified is still that date; a response     *)
(* without mtime is written with its own status and no conditional check.   *)
ConditionalGet ==
  wrOut # <<>> =>
    LET o == wrOut[1]
        date == apr_rfc822_date(wrResp.mtime)
    IN /\ wrResp.mtime # 0 => <<"Last-Modified", date>> \in o.r.headers_out
       /\ (/\ wrResp.mtime # 0
           /\ wrReq.ims = <<date>>
           /\ apr_date_parse_http(date) <= wrReq.request_time) =>
            /\ o.rc = 304
            /\ o.r.written = 0
            /\ o.r.content_type = ""
            /\ o.r.headers_out \subseteq {<<"Last-Modified", date>>}
       /\ wrResp.mtime = 0 =>
            /\ o.rc = 0
            /\ o.r.status = wrResp.code
            /\ o.r.mtime = 0
            /\ \A e \in o.r.headers_out : e[1] # "Last-Modified"

(* ================= properties of the get-capabilities URL ============== *)
RECURSIVE WithoutTrailingSlashes(_)
WithoutTrailingSlashes(s) ==
  IF s # <<>> /\ s[Len(s)] = "/" THEN WithoutTrailingSlashes(SubSeq(s, 1, Len(s) - 1)) ELSE s

(* C33: the url given to the capabilities generator is the request's url   *)
(* (scheme, host, uri) without the path-info at its end, ending in exactly  *)
(* one '/', wherever else the bytes of the path-info occur in the url.      *)
BaseUrlStripsPathInfo ==
  cuUrl # <<>> =>
    LET url == ap_construct_url(cuHost, cuUri)
        base == SubSeq(url, 1, Len(url) - Len(cuPathInfo))
    IN cuUrl[1] = WithoutTrailingSlashes(base) \o <<"/">>

(* ============ properties of the alias entry used by the handler ======== *)
(* C40: when the fixups hook has selected an alias entry for the request,   *)
(* the handler builds its context on that entry: the context's              *)
(* configuration and connection pool are those of the first entry of the    *)
(* server's list that matches the uri, also when another entry of the list  *)
(* has the same endpoint and when the list is a virtual host's entries      *)
(* followed by the base server's.                                           *)
HandlerUsesFixupsEntry ==
  (aeCtx # <<>> /\ aeFix[1].ret = OK) =>
    LET entries == MergedAliases(aeVhost, aeBase)
        i == FirstMatch(aeUri, EndpointsOf(entries), 1)
    IN /\ i > 0
       /\ aeFix[1].note = <<entries[i].endpoint>>
       /\ aeCtx[1].ret = OK
       /\ aeCtx[1].config = entries[i].cfg
       /\ aeCtx[1].connection_pool = entries[i].cp

SameEndpointInVhostAndBase ==
  /\ aeCtx # <<>>
  /\ aeFix[1].ret = OK
  /\ aeVhost = << <<"/", "a">> >>
  /\ aeBase = << <<"/", "a">> >>
  /\ aeUri = <<"/", "a", "/", "b">>
  /\ aeCtx[1].config = <<"vhost", 1>>
  /\ aeCtx[1].connection_pool = <<"vhost", 1>>

====
